---- MODULE Spec2Model ----
(***************************************************************************)
(* A model of pack.py: discovery of the files under the input paths, the   *)
(* ignore policy, the parallel read and the assembly of the output.        *)
(*                                                                         *)
(* A Python str is a sequence of one-character strings, a Path is the      *)
(* sequence of its components (absolute, "/" being the empty sequence).    *)
(***************************************************************************)
EXTENDS Integers, Sequences, FiniteSets, TLC

(***************************************************************************)
(* Bounds of the model.                                                    *)
(***************************************************************************)
\* longest list of input paths given on the command line
MaxInputs == 2
\* largest --workers value
MaxWorkers == 2
\* how many files the environment may delete between discovery and read
MaxVanish == 1
\* longest list of results handed to write_output when it is called directly
MaxBlocks == 2
\* longest list of candidates handed to read_files_parallel when it is called
\* directly
MaxTasks == 2

(***************************************************************************)
(* Strings.                                                                *)
(***************************************************************************)
\* ord(c) for the characters the model's names and patterns are made of
Ord(c) ==
  CASE c = "*" -> 42
    [] c = "." -> 46
    [] c = "/" -> 47
    [] c = "?" -> 63
    [] c = "G" -> 71
    [] c = "N" -> 78
    [] c = "P" -> 80
    [] c = "a" -> 97
    [] c = "b" -> 98
    [] c = "c" -> 99
    [] c = "d" -> 100
    [] c = "e" -> 101
    [] c = "g" -> 103
    [] c = "i" -> 105
    [] c = "j" -> 106
    [] c = "k" -> 107
    [] c = "m" -> 109
    [] c = "n" -> 110
    [] c = "o" -> 111
    [] c = "p" -> 112
    [] c = "q" -> 113
    [] c = "r" -> 114
    [] c = "s" -> 115
    [] c = "t" -> 116
    [] c = "u" -> 117
    [] c = "w" -> 119
    [] c = "x" -> 120
    [] c = "y" -> 121
    [] c = "z" -> 122

RECURSIVE StrLess(_, _)
\* Python's a < b on str: codepoint by codepoint, a proper prefix is smaller
StrLess(a, b) ==
  IF b = <<>> THEN FALSE
  ELSE IF a = <<>> THEN TRUE
  ELSE IF Head(a) = Head(b) THEN StrLess(Tail(a), Tail(b))
  ELSE Ord(Head(a)) < Ord(Head(b))

\* str.startswith('.')
StartsWithDot(s) == s # <<>> /\ Head(s) = "."

RECURSIVE FnMatch(_, _)
\* fnmatch.fnmatch(name, pat) for patterns made of literals, '*' and '?'
\* ('*' also matches '/'; the whole name must match)
FnMatch(name, pat) ==
  IF pat = <<>> THEN name = <<>>
  ELSE IF Head(pat) = "*"
    THEN FnMatch(name, Tail(pat)) \/ (name # <<>> /\ FnMatch(Tail(name), pat))
  ELSE /\ name # <<>>
       /\ (Head(pat) = "?" \/ Head(pat) = Head(name))
       /\ FnMatch(Tail(name), Tail(pat))

(***************************************************************************)
(* Paths.                                                                  *)
(***************************************************************************)
RECURSIVE JoinParts(_)
\* str(PurePosixPath(*parts)): the components joined by '/'
JoinParts(parts) ==
  IF parts = <<>> THEN <<".">>
  ELSE IF Len(parts) = 1 THEN parts[1]
  ELSE parts[1] \o <<"/">> \o JoinParts(Tail(parts))

\* Path.name
Name(p) == p[Len(p)]

\* PurePath.is_relative_to(root): root's components are a prefix of p's
IsRelativeTo(p, root) ==
  /\ Len(root) <= Len(p)
  /\ SubSeq(p, 1, Len(root)) = root

\* p.relative_to(root).parts, where IsRelativeTo(p, root)
RelParts(p, root) == SubSeq(p, Len(root) + 1, Len(p))

\* str(p.relative_to(root))
RelStr(p, root) == JoinParts(RelParts(p, root))

\* index of the last '.' of a name, 0 if there is none
LastDot(s) ==
  LET dots == {i \in 1..Len(s) : s[i] = "."}
  IN IF dots = {} THEN 0 ELSE CHOOSE i \in dots : \A j \in dots : j <= i

\* PurePath.suffix: from the last '.', none for a leading or a trailing dot
Suffix(s) ==
  LET i == LastDot(s)
  IN IF i > 1 /\ i < Len(s) THEN SubSeq(s, i, Len(s)) ELSE <<>>

(***************************************************************************)
(* The file system the runs work on.                                       *)
(***************************************************************************)
N_w == <<"w">>
N_o == <<"o">>
N_h == <<"h">>
N_s == <<"s">>
N_g == <<".", "g">>
N_apy == <<"a", ".", "p", "y">>
N_bmd == <<"b", ".", "m", "d">>
N_c == <<"c">>
N_npy == <<"n", ".", "p", "y">>
N_k == <<"k">>
N_e == <<".", "e">>
N_png == <<"i", ".", "p", "n", "g">>
N_zz == <<"z", "z">>
N_jPNG == <<"j", ".", "P", "N", "G">>
N_mpy == <<"m", ".", "p", "y">>
N_qpy == <<"q", ".", "p", "y">>
N_rpy == <<"r", ".", "p", "y">>
N_upy == <<"u", ".", "p", "y">>
N_ypy == <<"y", ".", "p", "y">>

\* `READ_CHUNK_SIZE = 1024`, the second of the two assignments
READ_CHUNK_SIZE == 1024

\* no byte of the file is NUL
NoNul == -1

\* a byte that is no part of any UTF-8 sequence, 0xFF
BadByte == "byte-ff"

\* the process's working directory, /w
Cwd == <<N_w>>

\* `DEFAULT_OUTPUT_FILENAME = "output.txt"`
DEFAULT_OUTPUT_FILENAME == <<"o", "u", "t", "p", "u", "t", ".", "t", "x", "t">>

\* os.path.abspath(output_filename): output.txt in the working directory
OutputFile == Cwd \o <<DEFAULT_OUTPUT_FILENAME>>

Dir(p) == [path |-> p, kind |-> "dir", size |-> 0, content |-> <<>>, nul |-> NoNul, target |-> p]
File(p, n, c, z) == [path |-> p, kind |-> "file", size |-> n, content |-> c, nul |-> z, target |-> p]
Link(p, t) == [path |-> p, kind |-> "link", size |-> 0, content |-> <<>>, nul |-> NoNul, target |-> t]

\* File(p, n, c, z): the file p of n bytes, c standing for them, whose first
\* NUL byte is at offset z
\*  /w/b.md (140 bytes)   /w/s/a.py (100 bytes)
\*  /w/output.txt (empty: as `open(output_filename, 'w')` makes or leaves it)
\*  /o/a.py   /o/k -> a.py   /o/.e
\*  /h/.g/c   /h/.e   /h/i.png (empty)   /h/n.py (begins with a NUL byte)
\*  /h/j.PNG (text)   /h/y.py (empty)   /h/u.py (no read permission)
\*  /h/q.py (its last byte, at offset 1023, is NUL)
\*  /h/m.py (its last byte, at offset 1024, is NUL)
\*  /h/r.py (the letter r and the byte 0xFF)
FS ==
  { Dir(<<N_w>>),
    File(<<N_w, N_bmd>>, 140, <<"b">>, NoNul),
    Dir(<<N_w, N_s>>),
    File(<<N_w, N_s, N_apy>>, 100, <<"a">>, NoNul),
    Dir(<<N_o>>),
    File(<<N_o, N_apy>>, 1, <<"x">>, NoNul),
    Link(<<N_o, N_k>>, <<N_o, N_apy>>),
    File(<<N_o, N_e>>, 1, <<"e">>, NoNul),
    Dir(<<N_h>>),
    Dir(<<N_h, N_g>>),
    File(<<N_h, N_g, N_c>>, 1, <<"c">>, NoNul),
    File(<<N_h, N_e>>, 3, <<"e", "e">>, NoNul),
    File(<<N_h, N_png>>, 0, <<>>, NoNul),
    File(<<N_h, N_npy>>, 5, <<"n">>, 0),
    File(<<N_h, N_jPNG>>, 1, <<"j">>, NoNul),
    File(<<N_h, N_ypy>>, 0, <<>>, NoNul),
    File(<<N_h, N_upy>>, 1, <<"u">>, NoNul),
    File(<<N_h, N_qpy>>, READ_CHUNK_SIZE, <<"q">>, READ_CHUNK_SIZE - 1),
    File(<<N_h, N_mpy>>, READ_CHUNK_SIZE + 1, <<"m">>, READ_CHUNK_SIZE),
    File(<<N_h, N_rpy>>, 2, <<"r", BadByte>>, NoNul),
    File(OutputFile, 0, <<>>, NoNul) }

\* the files the process has no permission to read
NoReadPermission == { <<N_h, N_upy>> }


Paths == {e.path : e \in FS}

\* the entry of each path, tabulated
EntryOf == [p \in Paths |-> CHOOSE e \in FS : e.path = p] @@ <<>>

Entry(p) == EntryOf[p]

\* the paths that are symbolic links
Links == {e.path : e \in {x \in FS : x.kind = "link"}}

\* Path.resolve(): the path with a final symbolic link followed
Resolve(p) == IF p \in Links THEN Entry(p).target ELSE p

(***************************************************************************)
(* State.                                                                  *)
(***************************************************************************)
VARIABLES
  input_paths,              \* main: args.paths, each written as an absolute Path
  include_pattern,          \* main: args.include
  exclude_pattern,          \* main: args.exclude
  max_file_size_bytes,      \* main: parse_size(args.max_file_size)
  num_workers,              \* main: args.workers
  pc,                       \* where the run is
  idx,                      \* collect_results: index of the input path at hand
  pending,                  \* collect_results: items p.rglob('*') has yet to yield
  files_to_process_tuples,  \* collect_results: <<absolute path, root>>, as found
  processed_files,          \* collect_results: the paths added so far
  sorted_files_info,        \* collect_results: the candidates, in reading order
  future,                   \* read_files_parallel: state of each submitted task
  results,                  \* read_files_parallel: <<relative path, content>>
  output,                   \* write_output: the blocks written to the sink
  gone,                     \* the files deleted since the run began
  calls,                    \* every should_ignore call made: arguments and outcome
  query,                    \* the argument of one direct call of should_ignore
  paths_only,               \* main: args.paths_only
  output_tokens_size_only,  \* main: args.output_tokens_size_only
  tiktoken,                 \* the module tiktoken, "None" when its import failed
  using_stdout,             \* main: the output goes to sys.stdout, not to output.txt
  sink,                     \* the text that has reached the consumer, or the file
  buffer,                   \* the text written to output_target and not yet flushed
  total_tokens_of_files,    \* write_output
  total_tokens_of_output,   \* write_output
  raised,                   \* write_output: the exception a write raised, if any
  warned,                   \* main: print_warning_about_large_output was called
  exit_status               \* the exit status of the process, "running" until it exits

vars ==
  <<input_paths, include_pattern, exclude_pattern, max_file_size_bytes,
    num_workers, pc, idx, pending, files_to_process_tuples, processed_files,
    sorted_files_info, future, results, output, gone, calls, query,
    paths_only, output_tokens_size_only, tiktoken, using_stdout,
    sink, buffer, total_tokens_of_files, total_tokens_of_output,
    raised, warned, exit_status>>

\* the options of a run that are not looked at before the files are read
options == <<paths_only, output_tokens_size_only, tiktoken, using_stdout>>

\* what write_output and the end of main change
written ==
  <<sink, buffer, total_tokens_of_files, total_tokens_of_output,
    raised, warned, exit_status>>

(***************************************************************************)
(* What the file system answers.                                           *)
(***************************************************************************)
\* output.txt is there only in a run that made it: main opens it for writing,
\* before anything is scanned, when sys.stdout is a terminal
NeverCreated == IF using_stdout THEN {OutputFile} ELSE {}

\* the files of the tree that are not there: deleted, or never made
NotThere == gone \cup NeverCreated

\* Path.exists(), following a symbolic link
Exists(p) == p \in Paths /\ Resolve(p) \in Paths /\ Resolve(p) \notin NotThere

\* Path.is_file(), following a symbolic link
IsFile(p) == Exists(p) /\ Entry(Resolve(p)).kind = "file"

\* Path.is_dir()
IsDir(p) == Exists(p) /\ Entry(Resolve(p)).kind = "dir"

\* Path.stat().st_size of an existing file
StSize(p) == Entry(Resolve(p)).size

\* the bytes of an existing file
Bytes(p) == Entry(Resolve(p)).content

\* bytes.decode('utf-8', errors='ignore'): a byte that cannot be decoded is
\* left out, an ASCII byte is its character
Decode(bytes) == SelectSeq(bytes, LAMBDA b : b # BadByte)

\* what open(p, 'r', encoding='utf-8', errors='ignore').read() returns for an
\* existing file
Content(p) == Decode(Bytes(p))

\* p.rglob('*'): every entry below the directory p, whatever its kind
RGlob(p) == {q \in Paths : IsRelativeTo(q, p) /\ q # p /\ q \notin NotThere}

(***************************************************************************)
(* is_likely_non_text                                                      *)
(***************************************************************************)
\* str.lower() of one character
Lower(c) ==
  CASE c = "P" -> "p"
    [] c = "N" -> "n"
    [] c = "G" -> "g"
    [] OTHER -> c

LowerStr(s) == [i \in 1..Len(s) |-> Lower(s[i])]

\* the members of NON_TEXT_EXTENSIONS_SET that names of the model can carry
NON_TEXT_EXTENSIONS_SET ==
  { <<".", "p", "n", "g">>, <<".", "e", "x", "e">>, <<".", "o">> }

\* as NulInChunk, the whole file read
NulInChunk_WholeFile(file_path) == Entry(Resolve(file_path)).nul # NoNul

\* `b'\0' in chunk`, chunk being the first READ_CHUNK_SIZE bytes of the file
NulInChunk(file_path) ==
  LET z == Entry(Resolve(file_path)).nul
  IN z # NoNul /\ z < READ_CHUNK_SIZE

\* a return of is_likely_non_text: whether the file was opened, the exception
\* caught, the value returned
Probed(o, e, r) == [opened |-> o, error |-> e, ret |-> r]

\* is_likely_non_text, step by step
Probe(file_path) ==
  IF LowerStr(Suffix(Name(file_path))) \in NON_TEXT_EXTENSIONS_SET
    THEN Probed(FALSE, "none", TRUE)
  ELSE IF ~Exists(file_path) THEN Probed(FALSE, "FileNotFoundError", TRUE)
  ELSE IF IsDir(file_path) THEN Probed(FALSE, "IsADirectoryError", TRUE)
  ELSE IF Resolve(file_path) \in NoReadPermission
    THEN Probed(FALSE, "PermissionError", TRUE)
  ELSE Probed(TRUE, "none", NulInChunk(file_path))

is_likely_non_text(file_path) == Probe(file_path).ret

(***************************************************************************)
(* should_ignore                                                           *)
(***************************************************************************)
\* a Python bool, as a returned value
PyBool(b) == [pytype |-> "bool", value |-> b]

\* the include pattern that switches the include check off
Star == <<"*">>

\* as HiddenDirectory, but looking at file_path.parts[:-1], root included
HiddenDirectory_AbsoluteParts(file_path, root_dir) ==
  \E i \in 1..(Len(file_path) - 1) : StartsWithDot(file_path[i])

\* `any(part.startswith('.') for part in relative_path.parts[:-1])`
HiddenDirectory(file_path, root_dir) ==
  LET parts == RelParts(file_path, root_dir)
  IN \E i \in 1..(Len(parts) - 1) : StartsWithDot(parts[i])

\* as TooLarge, with `>=`
TooLarge_AtLeast(file_size, max_bytes) == file_size >= max_bytes

\* `file_size > max_file_size_bytes`
TooLarge(file_size, max_bytes) == file_size > max_bytes

\* as CheckOrder, the content probed before the patterns and the hidden names
\* are looked at
CheckOrder_ProbeBeforePatterns ==
  << "not a file", "too large", "no relative path", "non text", "exclude",
     "include", "hidden file", "hidden directory" >>

\* as CheckOrder, the include pattern looked at before the exclude pattern
CheckOrder_IncludeFirst ==
  << "not a file", "too large", "no relative path", "include", "exclude",
     "hidden file", "hidden directory", "non text" >>

\* the checks of should_ignore, in the order its statements make them
CheckOrder ==
  << "not a file", "too large", "no relative path", "exclude", "include",
     "hidden file", "hidden directory", "non text" >>

\* as Fires, a file that an include pattern other than "*" matches being
\* taken whatever its name
Fires_IncludedMayBeHidden(check, file_path, root_dir, include, exclude, max_bytes) ==
  CASE check = "not a file" -> ~IsFile(file_path)
    [] check = "too large" -> TooLarge(StSize(file_path), max_bytes)
    [] check = "no relative path" -> ~IsRelativeTo(file_path, root_dir)
    [] check = "exclude" ->
         /\ exclude # <<>>
         /\ \/ FnMatch(RelStr(file_path, root_dir), exclude)
            \/ FnMatch(Name(file_path), exclude)
    [] check = "include" ->
         /\ include # Star
         /\ ~FnMatch(RelStr(file_path, root_dir), include)
         /\ ~FnMatch(Name(file_path), include)
    [] check = "hidden file" -> include = Star /\ StartsWithDot(Name(file_path))
    [] check = "hidden directory" ->
         include = Star /\ HiddenDirectory(file_path, root_dir)
    [] check = "non text" -> is_likely_non_text(file_path)

\* as Fires, the patterns matched against the relative path alone
Fires_RelativePathOnly(check, file_path, root_dir, include, exclude, max_bytes) ==
  CASE check = "not a file" -> ~IsFile(file_path)
    [] check = "too large" -> TooLarge(StSize(file_path), max_bytes)
    [] check = "no relative path" -> ~IsRelativeTo(file_path, root_dir)
    [] check = "exclude" ->
         exclude # <<>> /\ FnMatch(RelStr(file_path, root_dir), exclude)
    [] check = "include" ->
         include # Star /\ ~FnMatch(RelStr(file_path, root_dir), include)
    [] check = "hidden file" -> StartsWithDot(Name(file_path))
    [] check = "hidden directory" -> HiddenDirectory(file_path, root_dir)
    [] check = "non text" -> is_likely_non_text(file_path)

\* the condition under which a check of should_ignore returns True
Fires(check, file_path, root_dir, include, exclude, max_bytes) ==
  CASE check = "not a file" -> ~IsFile(file_path)
    [] check = "too large" -> TooLarge(StSize(file_path), max_bytes)
    [] check = "no relative path" -> ~IsRelativeTo(file_path, root_dir)
    [] check = "exclude" ->
         /\ exclude # <<>>
         /\ \/ FnMatch(RelStr(file_path, root_dir), exclude)
            \/ FnMatch(Name(file_path), exclude)
    [] check = "include" ->
         /\ include # Star
         /\ ~FnMatch(RelStr(file_path, root_dir), include)
         /\ ~FnMatch(Name(file_path), include)
    [] check = "hidden file" -> StartsWithDot(Name(file_path))
    [] check = "hidden directory" -> HiddenDirectory(file_path, root_dir)
    [] check = "non text" -> is_likely_non_text(file_path)

RECURSIVE ChecksFrom(_, _, _, _, _, _)
\* the checks made from the k-th on: each is made only if none before it fired
ChecksFrom(k, file_path, root_dir, include, exclude, max_bytes) ==
  IF k > Len(CheckOrder) THEN <<>>
  ELSE IF Fires(CheckOrder[k], file_path, root_dir, include, exclude, max_bytes)
    THEN <<CheckOrder[k]>>
  ELSE <<CheckOrder[k]>> \o
       ChecksFrom(k + 1, file_path, root_dir, include, exclude, max_bytes)

\* the checks one call of should_ignore makes, in order
ChecksMade(file_path, root_dir, include, exclude, max_bytes) ==
  ChecksFrom(1, file_path, root_dir, include, exclude, max_bytes)

\* The return statement of should_ignore that is executed: that of the last
\* check made if it fired, the final `return False` ("none") otherwise.
IgnoreRule(file_path, root_dir, include, exclude, max_bytes) ==
  LET made == ChecksMade(file_path, root_dir, include, exclude, max_bytes)
      last == made[Len(made)]
  IN IF Fires(last, file_path, root_dir, include, exclude, max_bytes)
       THEN last ELSE "none"

\* what should_ignore returns: True or False, and nothing else
should_ignore(file_path, root_dir, include, exclude, max_bytes) ==
  PyBool(IgnoreRule(file_path, root_dir, include, exclude, max_bytes) # "none")

\* one call of should_ignore, as recorded in `calls`
Call(file_path, root_dir, include, exclude, max_bytes) ==
  [ file |-> file_path, root |-> root_dir, include |-> include,
    exclude |-> exclude, max |-> max_bytes,
    checks |-> ChecksMade(file_path, root_dir, include, exclude, max_bytes),
    rule |-> IgnoreRule(file_path, root_dir, include, exclude, max_bytes),
    ret |-> should_ignore(file_path, root_dir, include, exclude, max_bytes) ]

(***************************************************************************)
(* list.sort(key=lambda item: item[0])                                     *)
(***************************************************************************)
RECURSIVE InsertByKey(_, _)
\* x put into the sorted list s behind every item whose key is not greater
InsertByKey(s, x) ==
  IF s = <<>> THEN <<x>>
  ELSE IF StrLess(x[1], Head(s)[1]) THEN <<x>> \o s
  ELSE <<Head(s)>> \o InsertByKey(Tail(s), x)

RECURSIVE SortByKey(_)
\* the stable sort of a list of tuples by their first component
SortByKey(s) ==
  IF s = <<>> THEN <<>>
  ELSE InsertByKey(SortByKey(SubSeq(s, 1, Len(s) - 1)), s[Len(s)])

(***************************************************************************)
(* collect_results: discovery                                              *)
(***************************************************************************)
\* `p = Path(path_str).resolve()` for the input path at hand
P == Resolve(input_paths[idx])

\* as ExplicitFileAccepted, the exclude pattern applied to the file's name too
ExplicitFileAccepted_Excluding(p) ==
  LET is_too_large == StSize(p) > max_file_size_bytes
      is_binary == is_likely_non_text(p)
      is_processed == p \in processed_files
      is_excluded == exclude_pattern # <<>> /\ FnMatch(Name(p), exclude_pattern)
  IN ~is_too_large /\ ~is_binary /\ ~is_processed /\ ~is_excluded

\* the explicitly named file p passes the simpler rules of collect_results
ExplicitFileAccepted(p) ==
  LET is_too_large == StSize(p) > max_file_size_bytes
      is_binary == is_likely_non_text(p)
      is_processed == p \in processed_files
  IN ~is_too_large /\ ~is_binary /\ ~is_processed

\* `if not p.exists(): ... continue`
InputNotFound ==
  /\ pc = "input" /\ idx <= Len(input_paths)
  /\ ~Exists(P)
  /\ idx' = idx + 1
  /\ UNCHANGED <<input_paths, include_pattern, exclude_pattern,
                 max_file_size_bytes, num_workers, pc, pending,
                 files_to_process_tuples, processed_files, sorted_files_info,
                 future, results, output, gone, calls, query, options, written>>

\* `if p in processed_files: continue`
InputAlreadyProcessed ==
  /\ pc = "input" /\ idx <= Len(input_paths)
  /\ Exists(P) /\ P \in processed_files
  /\ idx' = idx + 1
  /\ UNCHANGED <<input_paths, include_pattern, exclude_pattern,
                 max_file_size_bytes, num_workers, pc, pending,
                 files_to_process_tuples, processed_files, sorted_files_info,
                 future, results, output, gone, calls, query, options, written>>

\* `if p.is_file():` the whole branch
InputFile ==
  /\ pc = "input" /\ idx <= Len(input_paths)
  /\ Exists(P) /\ P \notin processed_files /\ IsFile(P)
  /\ IF ExplicitFileAccepted(P)
       THEN /\ files_to_process_tuples' = Append(files_to_process_tuples, <<P, Cwd>>)
            /\ processed_files' = processed_files \cup {P}
       ELSE UNCHANGED <<files_to_process_tuples, processed_files>>
  /\ idx' = idx + 1
  /\ UNCHANGED <<input_paths, include_pattern, exclude_pattern,
                 max_file_size_bytes, num_workers, pc, pending,
                 sorted_files_info, future, results, output, gone, calls, query, options, written>>

\* `elif p.is_dir():` the scan begins, p.rglob('*') has everything to yield
ScanDirectory ==
  /\ pc = "input" /\ idx <= Len(input_paths)
  /\ Exists(P) /\ P \notin processed_files /\ ~IsFile(P) /\ IsDir(P)
  /\ pc' = "scan"
  /\ pending' = RGlob(P)
  /\ UNCHANGED <<input_paths, include_pattern, exclude_pattern,
                 max_file_size_bytes, num_workers, idx,
                 files_to_process_tuples, processed_files, sorted_files_info,
                 future, results, output, gone, calls, query, options, written>>

\* one turn of `for item in p.rglob('*'):`, the items coming in any order
ScanItem(item) ==
  /\ pc = "scan" /\ item \in pending
  /\ pending' = pending \ {item}
  /\ IF item \in processed_files
       THEN UNCHANGED <<files_to_process_tuples, processed_files, calls>>
       ELSE /\ calls' = calls \cup
                 {Call(item, P, include_pattern, exclude_pattern, max_file_size_bytes)}
            /\ IF should_ignore(item, P, include_pattern, exclude_pattern,
                                max_file_size_bytes).value
                 THEN UNCHANGED <<files_to_process_tuples, processed_files>>
                 ELSE /\ files_to_process_tuples' =
                           Append(files_to_process_tuples, <<item, P>>)
                      /\ processed_files' = processed_files \cup {item}
  /\ UNCHANGED <<input_paths, include_pattern, exclude_pattern,
                 max_file_size_bytes, num_workers, pc, idx, sorted_files_info,
                 future, results, output, gone, query, options, written>>

\* p.rglob('*') is exhausted: on to the next input path
ScanDone ==
  /\ pc = "scan" /\ pending = {}
  /\ pc' = "input"
  /\ idx' = idx + 1
  /\ UNCHANGED <<input_paths, include_pattern, exclude_pattern,
                 max_file_size_bytes, num_workers, pending,
                 files_to_process_tuples, processed_files, sorted_files_info,
                 future, results, output, gone, calls, query, options, written>>

(***************************************************************************)
(* collect_results: the list to read, and read_files_parallel              *)
(***************************************************************************)
\* the sort key of a candidate: its relative path, its bare name when it has none
SortKey(abs_path, root_for_rel) ==
  IF IsRelativeTo(abs_path, root_for_rel) THEN RelStr(abs_path, root_for_rel)
  ELSE Name(abs_path)

\* files_to_sort, before it is sorted
FilesToSort(tuples) ==
  [i \in 1..Len(tuples) |-> <<SortKey(tuples[i][1], tuples[i][2]), tuples[i][1], tuples[i][2]>>]

\* sorted_files_info
SortedFilesInfo(tuples) ==
  LET sorted == SortByKey(FilesToSort(tuples))
  IN [i \in 1..Len(sorted) |-> <<sorted[i][2], sorted[i][3]>>]

\* Python's None and a returned (relative_path_str, content)
PyNone == [pytype |-> "NoneType", items |-> <<>>]
PyTuple(x, y) == [pytype |-> "tuple", items |-> <<x, y>>]

\* bool(v) of a returned value
Truthy(v) == v.pytype = "tuple" /\ Len(v.items) > 0

\* as read_file_content, an empty content returned for a file that cannot be
\* opened
read_file_content_EmptyOnError(file_path, root_dir) ==
  IF ~IsRelativeTo(file_path, root_dir) THEN PyNone
  ELSE IF ~IsFile(file_path) THEN PyTuple(RelStr(file_path, root_dir), <<>>)
  ELSE PyTuple(RelStr(file_path, root_dir), Content(file_path))

\* as read_file_content, every task reading through one file object, that of
\* the first candidate
read_file_content_SharedFile(file_path, root_dir) ==
  IF ~IsRelativeTo(file_path, root_dir) THEN PyNone
  ELSE IF ~IsFile(file_path) THEN PyNone
  ELSE PyTuple(RelStr(file_path, root_dir), Content(sorted_files_info[1][1]))

\* read_file_content: None when the relative path cannot be computed
\* (ValueError) or the file cannot be opened (OSError)
read_file_content(file_path, root_dir) ==
  IF ~IsRelativeTo(file_path, root_dir) THEN PyNone
  ELSE IF ~IsFile(file_path) THEN PyNone
  ELSE PyTuple(RelStr(file_path, root_dir), Content(file_path))

\* the input paths are done: the candidates are sorted by relative path and one
\* read task per candidate is submitted to the pool
SubmitReads ==
  /\ pc = "input" /\ idx > Len(input_paths)
  /\ ~paths_only
  /\ sorted_files_info' = SortedFilesInfo(files_to_process_tuples)
  /\ future' = [i \in 1..Len(files_to_process_tuples) |-> [state |-> "pending", reads |-> 0, at |-> 0]]
  /\ results' = <<>>
  /\ pc' = "read"
  /\ UNCHANGED <<input_paths, include_pattern, exclude_pattern,
                 max_file_size_bytes, num_workers, idx, pending,
                 files_to_process_tuples, processed_files, output, gone,
                 calls, query, options, written>>

\* as paths_only_record, the file opened and read as in normal mode
paths_only_record_Reading(abs_path, root_dir) ==
  IF IsRelativeTo(abs_path, root_dir) /\ IsFile(abs_path)
    THEN << <<RelStr(abs_path, root_dir), Content(abs_path)>> >>
    ELSE <<>>

\* read_files_parallel, paths_only: what one turn of the loop appends to
\* results, nothing when relative_to raises
paths_only_record(abs_path, root_dir) ==
  IF IsRelativeTo(abs_path, root_dir)
    THEN << <<RelStr(abs_path, root_dir), <<>>>> >>
    ELSE <<>>

RECURSIVE paths_only_results(_)
\* read_files_parallel, paths_only: the list it returns
paths_only_results(files_to_process) ==
  IF files_to_process = <<>> THEN <<>>
  ELSE paths_only_record(Head(files_to_process)[1], Head(files_to_process)[2]) \o
       paths_only_results(Tail(files_to_process))

Running == {i \in DOMAIN future : future[i].state = "running"}
Pending == {i \in DOMAIN future : future[i].state = "pending"}
Completed == {i \in DOMAIN future : future[i].state \in {"returned", "failed"}}

\* as WorkerTakes, the pool giving out no task once a task has failed
WorkerTakes_UnlessFailed(i) ==
  /\ pc = "read"
  /\ i \in Pending /\ \A j \in Pending : i <= j
  /\ Cardinality(Running) < num_workers
  /\ \A j \in DOMAIN future : future[j].state # "failed"
  /\ future' = [future EXCEPT ![i].state = "running"]
  /\ UNCHANGED <<input_paths, include_pattern, exclude_pattern,
                 max_file_size_bytes, num_workers, pc, idx, pending,
                 files_to_process_tuples, processed_files, sorted_files_info,
                 results, output, gone, calls, query, options, written>>

\* an idle worker takes the task at the head of the pool's queue
WorkerTakes(i) ==
  /\ pc = "read"
  /\ i \in Pending /\ \A j \in Pending : i <= j
  /\ Cardinality(Running) < num_workers
  /\ future' = [future EXCEPT ![i].state = "running"]
  /\ UNCHANGED <<input_paths, include_pattern, exclude_pattern,
                 max_file_size_bytes, num_workers, pc, idx, pending,
                 files_to_process_tuples, processed_files, sorted_files_info,
                 results, output, gone, calls, query, options, written>>

\* the task reads its file and completes; as_completed hands it to the
\* collecting loop, which keeps a result that is not None
TaskCompletes(i) ==
  /\ pc = "read"
  /\ i \in Running
  /\ LET result == read_file_content(sorted_files_info[i][1], sorted_files_info[i][2])
     IN /\ future' = [future EXCEPT ![i] =
                        [state |-> IF Truthy(result) THEN "returned" ELSE "failed",
                         reads |-> @.reads + 1,
                         at |-> Cardinality(Completed) + 1]]
        /\ results' = IF Truthy(result)
                        THEN Append(results, <<result.items[1], result.items[2]>>)
                        ELSE results
  /\ UNCHANGED <<input_paths, include_pattern, exclude_pattern,
                 max_file_size_bytes, num_workers, pc, idx, pending,
                 files_to_process_tuples, processed_files, sorted_files_info,
                 output, gone, calls, query, options, written>>

\* a candidate is deleted after discovery, before its task has read it
Vanish(f) ==
  /\ pc = "read"
  /\ Cardinality(gone) < MaxVanish
  /\ \E i \in DOMAIN future : Resolve(sorted_files_info[i][1]) = f
  /\ \A i \in DOMAIN future :
        Resolve(sorted_files_info[i][1]) = f => future[i].state \in {"pending", "running"}
  /\ f \notin gone
  /\ gone' = gone \cup {f}
  /\ UNCHANGED <<input_paths, include_pattern, exclude_pattern,
                 max_file_size_bytes, num_workers, pc, idx, pending,
                 files_to_process_tuples, processed_files, sorted_files_info,
                 future, results, output, calls, query, options, written>>

\* as SortResults, the sort left out
SortResults_Unsorted(r) == r

\* as SortResults, with key=lambda item: item[1]
SortResults_ByContent(r) ==
  LET swap(t) == [i \in 1..Len(t) |-> <<t[i][2], t[i][1]>>]
  IN swap(SortByKey(swap(r)))

\* `results.sort(key=lambda item: item[0])` at the end of collect_results
SortResults(r) == SortByKey(r)

\* as ReadsDone, read_files_parallel returning once every task has been taken
\* by a worker, finished or not
ReadsDone_TasksTaken ==
  /\ pc = "read"
  /\ Pending = {}
  /\ results' = SortResults(results)
  /\ pc' = "write"
  /\ UNCHANGED <<input_paths, include_pattern, exclude_pattern,
                 max_file_size_bytes, num_workers, idx, pending,
                 files_to_process_tuples, processed_files, sorted_files_info,
                 future, output, gone, calls, query, options, written>>

\* the pool is drained: read_files_parallel returns and collect_results sorts
\* the results by relative path
ReadsDone ==
  /\ pc = "read"
  /\ Completed = DOMAIN future
  /\ results' = SortResults(results)
  /\ pc' = "write"
  /\ UNCHANGED <<input_paths, include_pattern, exclude_pattern,
                 max_file_size_bytes, num_workers, idx, pending,
                 files_to_process_tuples, processed_files, sorted_files_info,
                 future, output, gone, calls, query, options, written>>

\* --paths-only: the input paths are done, the candidates are sorted,
\* read_files_parallel makes its list in one loop of its own and
\* collect_results sorts it
ReadPathsOnly ==
  /\ pc = "input" /\ idx > Len(input_paths)
  /\ paths_only
  /\ sorted_files_info' = SortedFilesInfo(files_to_process_tuples)
  /\ results' = SortResults(paths_only_results(SortedFilesInfo(files_to_process_tuples)))
  /\ pc' = "write"
  /\ UNCHANGED <<input_paths, include_pattern, exclude_pattern,
                 max_file_size_bytes, num_workers, idx, pending,
                 files_to_process_tuples, processed_files, future, output,
                 gone, calls, query, options, written>>

(***************************************************************************)
(* Text: numbers as they are printed, lengths, tokens.                     *)
(*                                                                         *)
(* An item of a text is a character, written as itself when it is ASCII,   *)
(* or Passage, which stands for a run of PassageLen ASCII letters.         *)
(***************************************************************************)
NL == "\n"

\* the character U+00E9, two bytes in UTF-8
EAcute == "e-acute"

\* `total_tokens_of_output > 800000` in main
LargeOutputThreshold == 800000

\* a run of ASCII letters, as long as makes a block of one header of seven
\* characters and one more character reach the threshold
Passage == "passage"
PassageLen == LargeOutputThreshold - 8

\* len(c) of an item, in characters
CharLen(c) == IF c = Passage THEN PassageLen ELSE 1

\* len(c.encode('utf-8')) of an item
Utf8CharLen(c) ==
  IF c = Passage THEN PassageLen ELSE IF c = EAcute THEN 2 ELSE 1

RECURSIVE StrLen(_)
\* len(text)
StrLen(text) ==
  IF text = <<>> THEN 0 ELSE CharLen(Head(text)) + StrLen(Tail(text))

RECURSIVE Utf8Len(_)
\* len(text.encode('utf-8')): the bytes the text takes in the output
Utf8Len(text) ==
  IF text = <<>> THEN 0 ELSE Utf8CharLen(Head(text)) + Utf8Len(Tail(text))

\* the decimal digit d as a character
DigitChar(d) == <<"0", "1", "2", "3", "4", "5", "6", "7", "8", "9">>[d + 1]

RECURSIVE Digits(_)
\* the decimal digits of n >= 0
Digits(n) ==
  IF n < 10 THEN <<DigitChar(n)>>
  ELSE Digits(n \div 10) \o <<DigitChar(n % 10)>>

\* f"{n}"
FormatInt(n) == IF n < 0 THEN <<"-">> \o Digits(-n) ELSE Digits(n)

RECURSIVE GroupDigits(_)
\* the digits in groups of three from the right, a comma between the groups
GroupDigits(ds) ==
  IF Len(ds) <= 3 THEN ds
  ELSE GroupDigits(SubSeq(ds, 1, Len(ds) - 3)) \o <<",">> \o
       SubSeq(ds, Len(ds) - 2, Len(ds))

\* f"{n:,}"
FormatGrouped(n) ==
  IF n < 0 THEN <<"-">> \o GroupDigits(Digits(-n)) ELSE GroupDigits(Digits(n))

\* len(encoding.encode(text)) for the encoding of the model, which makes one
\* token of every character
EncodedLen(text) == StrLen(text)

\* count_tokens: -1 when tiktoken could not be imported
count_tokens(text) == IF tiktoken = "None" THEN -1 ELSE EncodedLen(text)

(***************************************************************************)
(* parse_size                                                              *)
(*                                                                         *)
(* A Python int is kept as the sequence of its digits in base 1024, the    *)
(* most significant first and no leading zero (0 is the empty sequence):   *)
(* sizes go beyond what a machine word holds.  A float is an IEEE 754      *)
(* double: 53 significant bits times a power of two.                       *)
(***************************************************************************)
\* the significant bits of a double
FloatBits == 53

\* the base the digits of an int are in, and its bits
Base == 1024
BaseBits == 10

\* how many base-1024 digits behind the point are worked out before the
\* mantissa of a double is rounded
GuardDigits == 7

RECURSIVE StripZeros(_)
StripZeros(b) ==
  IF b # <<>> /\ Head(b) = 0 THEN StripZeros(Tail(b)) ELSE b

\* the sequence without its last element
Front(b) == SubSeq(b, 1, Len(b) - 1)

RECURSIVE MulAdd(_, _, _)
\* a * m + c for an int a and small numbers m and c
MulAdd(a, m, c) ==
  IF a = <<>> THEN (IF c = 0 THEN <<>> ELSE <<c>>)
  ELSE LET t == a[Len(a)] * m + c
       IN MulAdd(Front(a), m, t \div Base) \o <<t % Base>>

\* the value of a decimal digit
DigitValue(c) == CHOOSE d \in 0..9 : DigitChar(d) = c

RECURSIVE FromDecimal(_)
\* int(digits) for a string of decimal digits
FromDecimal(digits) ==
  IF digits = <<>> THEN <<>>
  ELSE MulAdd(FromDecimal(Front(digits)), 10, DigitValue(digits[Len(digits)]))

RECURSIVE DivSmall(_, _, _)
\* the int b divided by the small number d, rem being the remainder brought
\* down: the digits of the quotient, as many as b has, and the remainder
DivSmall(b, d, rem) ==
  IF b = <<>> THEN [quot |-> <<>>, rem |-> rem]
  ELSE LET r == Base * rem + Head(b)
           rest == DivSmall(Tail(b), d, r % d)
       IN [quot |-> <<r \div d>> \o rest.quot, rem |-> rest.rem]

\* six decimal digits of a number below 10^6
SixDigits(n) ==
  << DigitChar(n \div 100000), DigitChar((n \div 10000) % 10),
     DigitChar((n \div 1000) % 10), DigitChar((n \div 100) % 10),
     DigitChar((n \div 10) % 10), DigitChar(n % 10) >>

RECURSIVE ToDecimal(_)
\* str(n) of an int n > 0, six digits at a time
ToDecimal(b) ==
  LET qr == DivSmall(b, 1000000, 0)
      rest == StripZeros(qr.quot)
  IN IF rest = <<>> THEN Digits(qr.rem)
     ELSE ToDecimal(rest) \o SixDigits(qr.rem)

\* str(n) of an int n >= 0
IntStr(b) == IF b = <<>> THEN <<"0">> ELSE ToDecimal(b)

\* n zeros
Zeros(n) == [i \in 1..n |-> 0]

RECURSIVE PowerOfTen(_)
PowerOfTen(j) == IF j = 0 THEN 1 ELSE 10 * PowerOfTen(j - 1)

RECURSIVE PowerOfTwo(_)
PowerOfTwo(j) == IF j = 0 THEN 1 ELSE 2 * PowerOfTwo(j - 1)

\* the bits of an int, the most significant first, no leading zero
BitsOfInt(b) ==
  LET all == [i \in 1..(BaseBits * Len(b)) |->
                (b[(i - 1) \div BaseBits + 1]
                   \div PowerOfTwo(BaseBits - 1 - ((i - 1) % BaseBits))) % 2]
      ones == {i \in DOMAIN all : all[i] = 1}
  IN IF ones = {} THEN <<>>
     ELSE SubSeq(all, CHOOSE i \in ones : \A k \in ones : i <= k, Len(all))

\* the int whose bits are given
IntOfBits(bits) ==
  LET pad == (BaseBits - (Len(bits) % BaseBits)) % BaseBits
      all == Zeros(pad) \o bits
  IN [k \in 1..(Len(all) \div BaseBits) |->
        all[BaseBits * k - 9] * 512 + all[BaseBits * k - 8] * 256 +
        all[BaseBits * k - 7] * 128 + all[BaseBits * k - 6] * 64 +
        all[BaseBits * k - 5] * 32 + all[BaseBits * k - 4] * 16 +
        all[BaseBits * k - 3] * 8 + all[BaseBits * k - 2] * 4 +
        all[BaseBits * k - 1] * 2 + all[BaseBits * k]]

\* bits + 1
Increment(bits) ==
  LET zeros == {i \in DOMAIN bits : bits[i] = 0}
  IN IF zeros = {} THEN <<1>> \o Zeros(Len(bits))
     ELSE LET p == CHOOSE i \in zeros : \A k \in zeros : k <= i
          IN [i \in DOMAIN bits |-> IF i < p THEN bits[i] ELSE IF i = p THEN 1 ELSE 0]

\* float(s) for s the decimal numeral with the digits `digits`, the last j of
\* them behind the point: the nearest double, ties to even, as the bits of
\* its mantissa and its exponent (the value is mant * 2^exp)
FloatOf(digits, j) ==
  LET n == FromDecimal(digits)
      qr == DivSmall(n \o Zeros(GuardDigits), PowerOfTen(j), 0)
      q == BitsOfInt(qr.quot)
  IN IF Len(q) <= FloatBits
       THEN [mant |-> q, exp |-> 0 - BaseBits * GuardDigits]
       ELSE LET kept == SubSeq(q, 1, FloatBits)
                guard == q[FloatBits + 1]
                sticky == \/ qr.rem # 0
                          \/ \E i \in (FloatBits + 2)..Len(q) : q[i] = 1
                up == guard = 1 /\ (sticky \/ kept[FloatBits] = 1)
            IN [mant |-> IF up THEN Increment(kept) ELSE kept,
                exp |-> Len(q) - FloatBits - BaseBits * GuardDigits]

\* int(size * factor) for the double `size` and factor = 2^shift: the product
\* is exact, int() drops what is behind the binary point
IntOfProduct(size, shift) ==
  LET e == size.exp + shift
  IN IF size.mant = <<>> THEN <<>>
     ELSE IF e >= 0 THEN IntOfBits(size.mant \o Zeros(e))
     ELSE IF 0 - e >= Len(size.mant) THEN <<>>
     ELSE IntOfBits(SubSeq(size.mant, 1, Len(size.mant) + e))

\* str.upper() of one character
Upper(c) ==
  CASE c = "a" -> "A"
    [] c = "b" -> "B"
    [] c = "c" -> "C"
    [] c = "e" -> "E"
    [] c = "g" -> "G"
    [] c = "k" -> "K"
    [] c = "m" -> "M"
    [] c = "x" -> "X"
    [] OTHER -> c

UpperStr(s) == [i \in 1..Len(s) |-> Upper(s[i])]

\* \d and \s of the regular expression
IsDigit(c) == c \in {"0", "1", "2", "3", "4", "5", "6", "7", "8", "9"}
IsSpace(c) == c \in {" ", "\t", NL}

RECURSIVE LeadingDigits(_)
\* how many characters `\d+` takes at the head of s
LeadingDigits(s) ==
  IF s # <<>> /\ IsDigit(Head(s)) THEN 1 + LeadingDigits(Tail(s)) ELSE 0

RECURSIVE LeadingSpaces(_)
\* how many characters `\s*` takes at the head of s
LeadingSpaces(s) ==
  IF s # <<>> /\ IsSpace(Head(s)) THEN 1 + LeadingSpaces(Tail(s)) ELSE 0

\* s without its first n characters
Drop(s, n) == SubSeq(s, n + 1, Len(s))

\* re.match(r'^(\d+(\.\d+)?)\s*([KMGTPEZY]?B?)?$', s): whether it matches, and
\* the digits before the point, those behind it, and group 3
Match(s) ==
  LET n1 == LeadingDigits(s)
      r1 == Drop(s, n1)
      n2 == IF r1 # <<>> /\ Head(r1) = "." THEN LeadingDigits(Tail(r1)) ELSE 0
      r2 == IF n2 > 0 THEN Drop(r1, n2 + 1) ELSE r1
      r3 == Drop(r2, LeadingSpaces(r2))
      u1 == IF r3 # <<>> /\ Head(r3) \in {"K", "M", "G", "T", "P", "E", "Z", "Y"}
              THEN 1 ELSE 0
      r4 == Drop(r3, u1)
      u2 == IF r4 # <<>> /\ Head(r4) = "B" THEN 1 ELSE 0
      r5 == Drop(r4, u2)
  IN [ ok |-> n1 > 0 /\ (r5 = <<>> \/ r5 = <<NL>>),   \* `$`: the end, or a last newline
       whole |-> SubSeq(s, 1, n1),
       frac |-> IF n2 > 0 THEN SubSeq(r1, 2, n2 + 1) ELSE <<>>,
       unit |-> SubSeq(r3, 1, u1 + u2) ]

\* the power of 1024 that goes with a unit
UnitPower(unit) ==
  CASE unit \in {<<>>, <<"B">>} -> 0
    [] unit \in {<<"K">>, <<"K", "B">>} -> 1
    [] unit \in {<<"M">>, <<"M", "B">>} -> 2
    [] unit \in {<<"G">>, <<"G", "B">>} -> 3
    [] unit \in {<<"T">>, <<"T", "B">>} -> 4
    [] unit \in {<<"P">>, <<"P", "B">>} -> 5
    [] unit \in {<<"E">>, <<"E", "B">>} -> 6
    [] unit \in {<<"Z">>, <<"Z", "B">>} -> 7
    [] unit \in {<<"Y">>, <<"Y", "B">>} -> 8

\* what parse_size does: it raises ValueError, or returns an int, written here
\* in decimal
Raises(e) == [pytype |-> e, digits |-> <<>>]
PyInt(b) == [pytype |-> "int", digits |-> IntStr(b)]

parse_size(size_str) ==
  LET match == Match(UpperStr(size_str))
  IN IF ~match.ok THEN Raises("ValueError")
     ELSE LET size == FloatOf(match.whole \o match.frac, Len(match.frac))
          IN PyInt(IntOfProduct(size, BaseBits * UnitPower(match.unit)))

(***************************************************************************)
(* write_output                                                            *)
(***************************************************************************)
\* `file_info = f">>>> {relative_path}\n"`
file_info(relative_path) ==
  <<">", ">", ">", ">", " ">> \o relative_path \o <<NL>>

\* `file_content = file_info + content`
file_content(relative_path, content) == file_info(relative_path) \o content

\* f"\n{file_content_tokens} tokens, {len(file_content)} bytes\n"
tokens_and_bytes(file_content_tokens, length) ==
  <<NL>> \o FormatInt(file_content_tokens) \o
  <<" ", "t", "o", "k", "e", "n", "s", ",", " ">> \o FormatInt(length) \o
  <<" ", "b", "y", "t", "e", "s", NL>>

\* `to_write`, in the one mode and in the other
to_write(relative_path, content) ==
  LET fc == file_content(relative_path, content)
  IN IF output_tokens_size_only
       THEN file_info(relative_path) \o tokens_and_bytes(count_tokens(fc), StrLen(fc))
       ELSE fc

\* as total_line, printing the other of the two totals
total_line_OfOutput(tokens_of_files, tokens_of_output) ==
  << "T", "o", "t", "a", "l", " ", "t", "o", "k", "e", "n", "s", " ", "o", "f",
     " ", "i", "n", "p", "u", "t", " ", "f", "i", "l", "e", "s", ":", " " >> \o
  FormatGrouped(tokens_of_output) \o <<NL>>

\* f"Total tokens of input files: {total_tokens_of_files:,}\n"
total_line(tokens_of_files, tokens_of_output) ==
  << "T", "o", "t", "a", "l", " ", "t", "o", "k", "e", "n", "s", " ", "o", "f",
     " ", "i", "n", "p", "u", "t", " ", "f", "i", "l", "e", "s", ":", " " >> \o
  FormatGrouped(tokens_of_files) \o <<NL>>

\* one turn of `for relative_path, content in results:`, the two writes and
\* the flush going through
WriteBlock ==
  /\ pc = "write" /\ Len(output) < Len(results)
  /\ LET r == results[Len(output) + 1]
         tw == to_write(r[1], r[2])
     IN /\ output' = Append(output, [relative_path |-> r[1], content |-> r[2]])
        /\ total_tokens_of_files' =
             total_tokens_of_files + count_tokens(file_content(r[1], r[2]))
        /\ total_tokens_of_output' = total_tokens_of_output + count_tokens(tw)
        /\ sink' = sink \o buffer \o tw \o <<NL>>
        /\ buffer' = <<>>
  /\ UNCHANGED <<input_paths, include_pattern, exclude_pattern,
                 max_file_size_bytes, num_workers, pc, idx, pending,
                 files_to_process_tuples, processed_files, sorted_files_info,
                 future, results, gone, calls, query, options,
                 raised, warned, exit_status>>

\* the exit status sys.exit asks for in the `except` clause
ExitCodeFor(exception) == IF exception = "BrokenPipeError" THEN 0 ELSE 1

\* One turn of the loop in which a write or the flush raises `exception`: the
\* `except` clause calls sys.exit, the `finally` clause writes the total line
\* in size-report mode and closes output.txt, and the interpreter, on its way
\* out, flushes sys.stdout.  The text of the failed write is still in the
\* buffer (held) or is not: both happen, with the size of the write.  A flush
\* of what is in the buffer fails like the write did: at the close it raises
\* in place of SystemExit (status 1), at the exit of the interpreter it makes
\* the status 120.
WriteFails(exception, held) ==
  /\ pc = "write" /\ Len(output) < Len(results)
  /\ exception = "BrokenPipeError" => using_stdout
  /\ LET r == results[Len(output) + 1]
         tw == to_write(r[1], r[2])
         files == total_tokens_of_files + count_tokens(file_content(r[1], r[2]))
         left == (IF held THEN buffer \o tw \o <<NL>> ELSE <<>>) \o
                 (IF output_tokens_size_only
                    THEN total_line(files, total_tokens_of_output) ELSE <<>>)
     IN /\ total_tokens_of_files' = files
        /\ buffer' = left
        /\ exit_status' =
             IF left = <<>> THEN ExitCodeFor(exception)
             ELSE IF using_stdout THEN 120 ELSE 1
  /\ raised' = exception
  /\ pc' = "exit"
  /\ UNCHANGED <<input_paths, include_pattern, exclude_pattern,
                 max_file_size_bytes, num_workers, idx, pending,
                 files_to_process_tuples, processed_files, sorted_files_info,
                 future, results, output, gone, calls, query, options,
                 sink, total_tokens_of_output, warned>>

\* the loop is over: the `finally` clause writes the total line in size-report
\* mode and closes output.txt, and write_output returns
WriteDone ==
  /\ pc = "write" /\ Len(output) = Len(results)
  /\ LET text == buffer \o
                 (IF output_tokens_size_only
                    THEN total_line(total_tokens_of_files, total_tokens_of_output)
                    ELSE <<>>)
     IN IF using_stdout
          THEN buffer' = text /\ sink' = sink
          ELSE buffer' = <<>> /\ sink' = sink \o text
  /\ pc' = "done"
  /\ UNCHANGED <<input_paths, include_pattern, exclude_pattern,
                 max_file_size_bytes, num_workers, idx, pending,
                 files_to_process_tuples, processed_files, sorted_files_info,
                 future, results, output, gone, calls, query, options,
                 total_tokens_of_files, total_tokens_of_output,
                 raised, warned, exit_status>>

\* as large_output, with `>=`
large_output_AtLeast(total, size_only) ==
  total >= LargeOutputThreshold /\ size_only = FALSE

\* `total_tokens_of_output > 800000 and args.output_tokens_size_only is False`
large_output(total, size_only) ==
  total > LargeOutputThreshold /\ size_only = FALSE

\* main after write_output: the warning about a large output goes to stderr,
\* main returns, the interpreter flushes sys.stdout and exits
MainReturns ==
  /\ pc = "done"
  /\ warned' = large_output(total_tokens_of_output, output_tokens_size_only)
  /\ sink' = sink \o buffer
  /\ buffer' = <<>>
  /\ exit_status' = 0
  /\ pc' = "exit"
  /\ UNCHANGED <<input_paths, include_pattern, exclude_pattern,
                 max_file_size_bytes, num_workers, idx, pending,
                 files_to_process_tuples, processed_files, sorted_files_info,
                 future, results, output, gone, calls, query, options,
                 total_tokens_of_files, total_tokens_of_output, raised>>

(***************************************************************************)
(* The runs.                                                               *)
(***************************************************************************)
\* the paths a command line is made of: ".", "s", "b.md", "/o", "/o/k" and
\* "zz", which does not exist
InputArgs ==
  { Cwd, <<N_w, N_s>>, <<N_w, N_bmd>>, <<N_o>>, <<N_o, N_k>>, <<N_w, N_zz>> }

\* --include: the default "*", or "*.py"
IncludeChoices == {Star, <<"*", ".", "p", "y">>}

\* --exclude: the default "", or "*.md"
ExcludeChoices == {<<>>, <<"*", ".", "m", "d">>}

\* --max-file-size
MaxBytesChoices == {100, 140}

InputLists(args) == UNION {[1..n -> args] : n \in 1..MaxInputs}

NoQuery == [file |-> <<>>, root |-> <<>>, include |-> <<>>, exclude |-> <<>>, max |-> 0]

\* nothing written yet: the state write_output starts from
NothingWritten ==
  /\ sink = <<>>
  /\ buffer = <<>>
  /\ total_tokens_of_files = 0
  /\ total_tokens_of_output = 0
  /\ raised = "none"
  /\ warned = FALSE
  /\ exit_status = "running"

\* main, up to the call of collect_results, the command line naming `args`
\* and holding --paths-only or not; sys.stdout is a terminal or is not, and
\* in the first case output.txt has been opened for writing; tiktoken is there
InitRun(args, po, isatty) ==
  /\ paths_only = po
  /\ output_tokens_size_only = FALSE
  /\ tiktoken = "cl100k_base"
  /\ using_stdout = ~isatty
  /\ NothingWritten
  /\ input_paths \in InputLists(args)
  /\ include_pattern \in IncludeChoices
  /\ exclude_pattern \in ExcludeChoices
  /\ max_file_size_bytes \in MaxBytesChoices
  /\ num_workers \in 1..MaxWorkers
  /\ pc = "input"
  /\ idx = 1
  /\ pending = {}
  /\ files_to_process_tuples = <<>>
  /\ processed_files = {}
  /\ sorted_files_info = <<>>
  /\ future = <<>>
  /\ results = <<>>
  /\ output = <<>>
  /\ gone = {}
  /\ calls = {}
  /\ query = NoQuery

\* the same, the output piped or redirected
InitWith(args, po) == InitRun(args, po, FALSE)

Init == InitWith(InputArgs, FALSE)

Next ==
  \/ InputNotFound
  \/ InputAlreadyProcessed
  \/ InputFile
  \/ ScanDirectory
  \/ \E item \in pending : ScanItem(item)
  \/ ScanDone
  \/ SubmitReads
  \/ \E i \in DOMAIN future : WorkerTakes(i)
  \/ \E i \in DOMAIN future : TaskCompletes(i)
  \/ \E i \in DOMAIN future : Vanish(Resolve(sorted_files_info[i][1]))
  \/ ReadsDone
  \/ WriteBlock
  \/ WriteDone
  \/ MainReturns

Spec == Init /\ [][Next]_vars

\* Runs whose command line names files: "/h/.g" (a directory), "b.md",
\* "/h/.g/c", "/h/.e", "/h/i.png", "/h/n.py" and "zz"
NamedArgs ==
  { <<N_h, N_g>>, <<N_w, N_bmd>>, <<N_h, N_g, N_c>>, <<N_h, N_e>>,
    <<N_h, N_png>>, <<N_h, N_npy>>, <<N_w, N_zz>> }

InitNamed == InitWith(NamedArgs, FALSE)

SpecNamed == InitNamed /\ [][Next]_vars

\* Runs from a terminal, the output going to output.txt: over ".", "s", "b.md"
\* and "zz".
TerminalArgs == { Cwd, <<N_w, N_s>>, <<N_w, N_bmd>>, <<N_w, N_zz>> }

InitTerminal == InitRun(TerminalArgs, FALSE, TRUE)

SpecTerminal == InitTerminal /\ [][Next]_vars

\* Runs with --paths-only.
InitPathsOnly == InitWith(InputArgs, TRUE)

NextPathsOnly ==
  \/ InputNotFound
  \/ InputAlreadyProcessed
  \/ InputFile
  \/ ScanDirectory
  \/ \E item \in pending : ScanItem(item)
  \/ ScanDone
  \/ ReadPathsOnly
  \/ WriteBlock
  \/ WriteDone
  \/ MainReturns

SpecPathsOnly == InitPathsOnly /\ [][NextPathsOnly]_vars

(***************************************************************************)
(* should_ignore called directly, as the unit tests call it.               *)
(***************************************************************************)
QueryIncludes ==
  { Star, <<"*", ".", "p", "y">>, <<"s", "/", "*">>, <<"?", ".", "m", "d">>,
    <<"a", "*">>, <<".", "*">> }
QueryExcludes ==
  { <<>>, <<"*", ".", "m", "d">>, <<"s", "/", "*">>, <<"*">>, <<"a", "*">> }
QueryRoots == {<<N_w>>, <<N_w, N_s>>, <<N_o>>, <<N_h>>, <<N_h, N_g>>}

Queries ==
  [ file : Paths \cup {<<N_w, N_zz>>}, root : QueryRoots,
    include : QueryIncludes, exclude : QueryExcludes, max : MaxBytesChoices ]

InitFilter ==
  /\ query \in Queries
  /\ pc = "call"
  /\ calls = {}
  /\ input_paths = <<>>
  /\ include_pattern = query.include
  /\ exclude_pattern = query.exclude
  /\ max_file_size_bytes = query.max
  /\ num_workers = 1
  /\ idx = 1
  /\ pending = {}
  /\ files_to_process_tuples = <<>>
  /\ processed_files = {}
  /\ sorted_files_info = <<>>
  /\ future = <<>>
  /\ results = <<>>
  /\ output = <<>>
  /\ gone = {}
  /\ paths_only = FALSE
  /\ output_tokens_size_only = FALSE
  /\ tiktoken = "cl100k_base"
  /\ using_stdout = TRUE
  /\ NothingWritten

\* should_ignore(file_path, root_dir, include_pattern, exclude_pattern,
\* max_file_size_bytes) is called and returns
DirectCall ==
  /\ pc = "call"
  /\ calls' = {Call(query.file, query.root, query.include, query.exclude, query.max)}
  /\ pc' = "called"
  /\ UNCHANGED <<input_paths, include_pattern, exclude_pattern,
                 max_file_size_bytes, num_workers, idx, pending,
                 files_to_process_tuples, processed_files, sorted_files_info,
                 future, results, output, gone, query, options, written>>

NextFilter == DirectCall

SpecFilter == InitFilter /\ [][NextFilter]_vars

(***************************************************************************)
(* is_likely_non_text called directly, as the unit tests call it, on every *)
(* path of the tree and on one that does not exist, one file at most       *)
(* having been deleted.                                                    *)
(***************************************************************************)
InitNonText ==
  /\ query \in {[NoQuery EXCEPT !.file = f] : f \in Paths \cup {<<N_w, N_zz>>}}
  /\ gone \in {{}} \cup {{f} : f \in {q \in Paths : Entry(q).kind = "file"}}
  /\ pc = "probe"
  /\ calls = {}
  /\ input_paths = <<>>
  /\ include_pattern = Star
  /\ exclude_pattern = <<>>
  /\ max_file_size_bytes = 0
  /\ num_workers = 1
  /\ idx = 1
  /\ pending = {}
  /\ files_to_process_tuples = <<>>
  /\ processed_files = {}
  /\ sorted_files_info = <<>>
  /\ future = <<>>
  /\ results = <<>>
  /\ output = <<>>
  /\ paths_only = FALSE
  /\ output_tokens_size_only = FALSE
  /\ tiktoken = "cl100k_base"
  /\ using_stdout = TRUE
  /\ NothingWritten

\* is_likely_non_text(file_path) is called and returns
ProbeCall ==
  /\ pc = "probe"
  /\ calls' = {[file |-> query.file, probe |-> Probe(query.file),
                ret |-> is_likely_non_text(query.file)]}
  /\ pc' = "probed"
  /\ UNCHANGED <<input_paths, include_pattern, exclude_pattern,
                 max_file_size_bytes, num_workers, idx, pending,
                 files_to_process_tuples, processed_files, sorted_files_info,
                 future, results, output, gone, query, options, written>>

NextNonText == ProbeCall

SpecNonText == InitNonText /\ [][NextNonText]_vars

(***************************************************************************)
(* parse_size called directly, as the unit tests call it.                  *)
(***************************************************************************)
\* the numbers tried: those of the unit test, 0, numbers with a decimal part
\* that is no sum of powers of two, and 2^53 + 1
SizeNumbers ==
  { <<"1", "0", "2", "4">>, <<"1", ".", "5">>, <<"2">>, <<"5">>, <<"1", "0">>,
    <<"0">>, <<"1", ".", "1">>, <<"0", ".", "1">>, <<"1", ".", "9">>,
    <<"0", ".", "0", "0", "1">>,
    <<"9", "0", "0", "7", "1", "9", "9", "2", "5", "4", "7", "4", "0", "9", "9", "3">> }

\* what follows the number
SizeSuffixes ==
  { <<>>, <<"B">>, <<"K">>, <<"k", "b">>, <<"M">>, <<"m", "b">>, <<"G">>,
    <<"T">>, <<"E">>, <<"Y", "B">>, <<"X">>, <<"K", "K">>, <<"B", "B">>,
    <<" ", "K">>, <<NL>>, <<"K", " ">> }

\* strings that begin with no number
SizeOthers ==
  { <<>>, <<"a", "b", "c">>, <<".", "5", "M">>, <<"5", ".", "M">>,
    <<"1", "e", "3">>, <<"-", "1">>, <<"K">>, <<" ", "1", "0">> }

SizeStrings == {n \o u : n \in SizeNumbers, u \in SizeSuffixes} \cup SizeOthers

InitSize ==
  /\ query \in {[size_str |-> s] : s \in SizeStrings}
  /\ pc = "parse"
  /\ calls = {}
  /\ gone = {}
  /\ input_paths = <<>>
  /\ include_pattern = Star
  /\ exclude_pattern = <<>>
  /\ max_file_size_bytes = 0
  /\ num_workers = 1
  /\ idx = 1
  /\ pending = {}
  /\ files_to_process_tuples = <<>>
  /\ processed_files = {}
  /\ sorted_files_info = <<>>
  /\ future = <<>>
  /\ results = <<>>
  /\ output = <<>>
  /\ paths_only = FALSE
  /\ output_tokens_size_only = FALSE
  /\ tiktoken = "cl100k_base"
  /\ using_stdout = TRUE
  /\ NothingWritten

\* parse_size(size_str) is called and returns, or raises
ParseCall ==
  /\ pc = "parse"
  /\ calls' = {[size_str |-> query.size_str, ret |-> parse_size(query.size_str)]}
  /\ pc' = "parsed"
  /\ UNCHANGED <<input_paths, include_pattern, exclude_pattern,
                 max_file_size_bytes, num_workers, idx, pending,
                 files_to_process_tuples, processed_files, sorted_files_info,
                 future, results, output, gone, query, options, written>>

NextSize == ParseCall

SpecSize == InitSize /\ [][NextSize]_vars

(***************************************************************************)
(* write_output called directly on a list of results, and the end of main: *)
(* either mode, tiktoken there or not, the output piped or in output.txt,  *)
(* the writes going through or one of them failing.                        *)
(***************************************************************************)
\* the relative paths of the results, in their order
BlockPaths == << <<"a">>, <<"b">>, <<"c">>, <<"d">> >>

\* the contents tried: none, a character, a character of two bytes, and three
\* that bring a block of one header to 799999, 800000 and 800001 characters
ContentChoices ==
  { <<>>, <<"x">>, <<EAcute>>, <<Passage>>, <<Passage, "x">>, <<Passage, "x", "x">> }

\* the lists of results, sorted by relative path as collect_results returns them
ResultLists ==
  UNION { { [i \in 1..n |-> <<BlockPaths[i], c[i]>>] : c \in [1..n -> ContentChoices] } :
          n \in 0..MaxBlocks }

InitWrite ==
  /\ results \in ResultLists
  /\ output_tokens_size_only \in BOOLEAN
  /\ tiktoken \in {"cl100k_base", "None"}
  /\ using_stdout \in BOOLEAN
  /\ paths_only = FALSE
  /\ NothingWritten
  /\ pc = "write"
  /\ output = <<>>
  /\ calls = {}
  /\ gone = {}
  /\ query = NoQuery
  /\ input_paths = <<>>
  /\ include_pattern = Star
  /\ exclude_pattern = <<>>
  /\ max_file_size_bytes = 0
  /\ num_workers = 1
  /\ idx = 1
  /\ pending = {}
  /\ files_to_process_tuples = <<>>
  /\ processed_files = {}
  /\ sorted_files_info = <<>>
  /\ future = <<>>

NextWrite ==
  \/ WriteBlock
  \/ \E exception \in {"BrokenPipeError", "OSError"}, held \in BOOLEAN :
        WriteFails(exception, held)
  \/ WriteDone
  \/ MainReturns

SpecWrite == InitWrite /\ [][NextWrite]_vars

(***************************************************************************)
(* read_files_parallel called directly on a list of candidates, sorted as   *)
(* collect_results sorts it: two files of one relative path, "a.py", under  *)
(* two roots; a file that is not below its root; a file that holds a byte   *)
(* that is not UTF-8.                                                       *)
(***************************************************************************)
Candidates ==
  { << <<N_w, N_bmd>>, <<N_w>> >>,
    << <<N_w, N_s, N_apy>>, <<N_w, N_s>> >>,
    << <<N_o, N_apy>>, <<N_o>> >>,
    << <<N_o, N_apy>>, <<N_w>> >>,
    << <<N_h, N_rpy>>, <<N_h>> >> }

\* the lists of distinct candidates, MaxTasks at most, in reading order
CandidateLists ==
  UNION { {SortedFilesInfo(t) :
             t \in {u \in [1..n -> Candidates] : \A i, j \in 1..n : i # j => u[i] # u[j]}} :
          n \in 0..MaxTasks }

\* files_to_process is given and one read task per candidate is submitted
InitRead ==
  /\ sorted_files_info \in CandidateLists
  /\ files_to_process_tuples = sorted_files_info
  /\ future = [i \in 1..Len(sorted_files_info) |-> [state |-> "pending", reads |-> 0, at |-> 0]]
  /\ num_workers \in 1..MaxWorkers
  /\ pc = "read"
  /\ results = <<>>
  /\ input_paths = <<>>
  /\ include_pattern = Star
  /\ exclude_pattern = <<>>
  /\ max_file_size_bytes = 0
  /\ idx = 1
  /\ pending = {}
  /\ processed_files = {}
  /\ output = <<>>
  /\ gone = {}
  /\ calls = {}
  /\ query = NoQuery
  /\ paths_only = FALSE
  /\ output_tokens_size_only = FALSE
  /\ tiktoken = "cl100k_base"
  /\ using_stdout = TRUE
  /\ NothingWritten

\* the records it returns are sorted and written as main does
NextRead ==
  \/ \E i \in DOMAIN future : WorkerTakes(i)
  \/ \E i \in DOMAIN future : TaskCompletes(i)
  \/ \E i \in DOMAIN future : Vanish(Resolve(sorted_files_info[i][1]))
  \/ ReadsDone
  \/ WriteBlock
  \/ WriteDone
  \/ MainReturns

SpecRead == InitRead /\ [][NextRead]_vars

\* The workers are scheduled fairly: a worker that is idle while a task waits
\* takes it, a task that runs comes to its end (the read of a regular file
\* ends), and the thread that called read_files_parallel goes on once
\* as_completed has handed it every future.  Nothing is asked of the
\* deletion of files.
FairRead ==
  /\ \A i \in 1..MaxTasks : WF_vars(WorkerTakes(i)) /\ WF_vars(TaskCompletes(i))
  /\ WF_vars(ReadsDone)

SpecReadFair == InitRead /\ [][NextRead]_vars /\ FairRead

(***************************************************************************)
(* The properties checked.                                                 *)
(***************************************************************************)
\* a <= b in codepoint order: a is a prefix of b, or a is smaller where the
\* two first differ
LexLeq(a, b) ==
  \/ Len(a) <= Len(b) /\ SubSeq(b, 1, Len(a)) = a
  \/ \E k \in 1..Len(a) :
        /\ k <= Len(b)
        /\ SubSeq(a, 1, k - 1) = SubSeq(b, 1, k - 1)
        /\ Ord(a[k]) < Ord(b[k])

\* discovery is over: the list of candidates is final
Discovered == pc \in {"read", "write", "done"}

\* p names a regular file of the tree, as the run found it
RegularFile(p) ==
  p \in Paths /\ Entry(Resolve(p)).kind = "file" /\ Resolve(p) \notin NeverCreated

\* p names a directory of the tree
Directory(p) == p \in Paths /\ Entry(Resolve(p)).kind = "dir"

\* the paths of the candidates
CandidatePaths == {files_to_process_tuples[i][1] : i \in DOMAIN files_to_process_tuples}

\* the files were enumerated in an order that is not the sorted one
EnumeratedOutOfOrder == SortedFilesInfo(files_to_process_tuples) # files_to_process_tuples

\* two read tasks completed in the order opposite to their submission
CompletedOutOfOrder ==
  \E i, j \in DOMAIN future : i < j /\ future[j].at < future[i].at /\ future[j].at > 0

\* C1: the blocks written by write_output after collect_results are in
\* non-decreasing codepoint order of their relative paths, whatever the order
\* in which the files were enumerated and the read tasks completed.
C1_OutputSorted ==
  \A i, j \in DOMAIN output :
    i < j => LexLeq(output[i].relative_path, output[j].relative_path)

\* C1 witness: a finished run of three blocks or more whose files were
\* enumerated, and whose reads completed, out of order
C1_Witness ==
  /\ pc = "done" /\ Len(output) >= 3
  /\ EnumeratedOutOfOrder /\ CompletedOutOfOrder

\* the files a scan of the directory root accepts
Accepted(root) ==
  {f \in RGlob(root) :
     ~should_ignore(f, root, include_pattern, exclude_pattern, max_file_size_bytes).value}

\* C2: for a single directory root whose tree does not change, the assembled
\* output is one block per accepted file, in strictly increasing order of
\* relative path: it is fixed by the tree and the options alone, the same for
\* every number of workers and every interleaving of them.
C2_WorkersDoNotMatter ==
  (pc = "done" /\ Len(input_paths) = 1 /\ Directory(input_paths[1]) /\ gone = {}) =>
    LET root == Resolve(input_paths[1])
    IN /\ Len(output) = Cardinality(Accepted(root))
       /\ {output[i] : i \in DOMAIN output} =
            {[relative_path |-> RelStr(f, root), content |-> Content(f)] : f \in Accepted(root)}
       /\ \A i, j \in DOMAIN output :
            i < j => /\ output[i].relative_path # output[j].relative_path
                     /\ LexLeq(output[i].relative_path, output[j].relative_path)

\* C2 witness: a finished run over one unchanged directory, with several
\* workers, whose reads completed out of order
C2_Witness ==
  /\ pc = "done" /\ Len(input_paths) = 1 /\ Directory(input_paths[1]) /\ gone = {}
  /\ num_workers > 1 /\ Len(output) >= 2 /\ CompletedOutOfOrder

\* every entry below the directory p, whatever has been deleted since
Below(p) == {q \in Paths : IsRelativeTo(q, p) /\ q # p /\ q \notin NeverCreated}

\* the k-th input path reaches the file t: it names it, or it names a directory
\* with an entry below it that is, or links to, t
Reaches(k, t) ==
  LET p == Resolve(input_paths[k])
  IN \/ RegularFile(p) /\ p = t
     \/ Directory(p) /\ \E q \in Below(p) : Resolve(q) = t

\* the root that goes with the k-th input path
RootOf(k) ==
  LET p == Resolve(input_paths[k])
  IN IF RegularFile(p) THEN Cwd ELSE p

\* C3: after discovery the candidate list holds at most one entry per resolved
\* absolute file path, and the root of an entry is that of the first input
\* path, in argument order, that reaches the file.
C3_OneEntryPerResolvedPath ==
  Discovered =>
    /\ \A i, j \in DOMAIN files_to_process_tuples :
         i # j => Resolve(files_to_process_tuples[i][1]) # Resolve(files_to_process_tuples[j][1])
    /\ \A i \in DOMAIN files_to_process_tuples :
         LET t == Resolve(files_to_process_tuples[i][1])
             first == CHOOSE k \in DOMAIN input_paths :
                        /\ Reaches(k, t)
                        /\ \A m \in DOMAIN input_paths : Reaches(m, t) => k <= m
         IN files_to_process_tuples[i][2] = RootOf(first)

\* the record the i-th read task returns when its read succeeds
RecordOf(i) ==
  << RelStr(sorted_files_info[i][1], sorted_files_info[i][2]),
     Content(sorted_files_info[i][1]) >>

\* the read of the i-th candidate fails: its relative path cannot be computed,
\* or its file was deleted after discovery
ReadFails(i) ==
  \/ ~IsRelativeTo(sorted_files_info[i][1], sorted_files_info[i][2])
  \/ Resolve(sorted_files_info[i][1]) \in gone

\* C4: no candidate is read more than once, and once the pool is drained the
\* results hold exactly one record per candidate whose read succeeded and none
\* for a candidate whose read failed: a failure neither stops the run nor
\* costs another candidate its record.
C4_OneRecordPerSuccessfulRead ==
  /\ \A i \in DOMAIN future : future[i].reads <= 1
  /\ pc \in {"write", "done"} =>
       /\ \A i \in DOMAIN future : future[i].reads = 1
       /\ Len(results) = Cardinality({i \in DOMAIN future : ~ReadFails(i)})
       /\ \A i \in DOMAIN future :
            ~ReadFails(i) => \E k \in DOMAIN results : results[k] = RecordOf(i)
       /\ \A k \in DOMAIN results :
            \E i \in DOMAIN future : ~ReadFails(i) /\ results[k] = RecordOf(i)

\* C4 witness: a finished run in which the read of a deleted file failed, the
\* read of a file outside its root failed, and two other reads succeeded
C4_Witness ==
  /\ pc = "done" /\ gone # {}
  /\ \E i, j \in DOMAIN future :
        /\ Resolve(sorted_files_info[i][1]) \in gone
        /\ ~IsRelativeTo(sorted_files_info[j][1], sorted_files_info[j][2])
  /\ Len(output) >= 2

\* C7: a file is rejected for its size exactly when it is larger than the
\* limit, a file of exactly the limit passing: in a directory scan the size
\* rule fires for a regular file iff size > limit, an explicitly named regular
\* file larger than the limit is no candidate and one within the limit that is
\* text is, no candidate is larger than the limit, and under a limit of 100
\* no block comes from a 140-byte file while the 100-byte file scanned with
\* the default patterns keeps its block.
C7_SizeLimit ==
  /\ \A c \in calls :
       RegularFile(c.file) => ((c.rule = "too large") <=> (StSize(c.file) > c.max))
  /\ Discovered =>
       /\ \A i \in DOMAIN files_to_process_tuples :
            StSize(files_to_process_tuples[i][1]) <= max_file_size_bytes
       /\ \A k \in DOMAIN input_paths :
            LET p == Resolve(input_paths[k])
            IN RegularFile(p) =>
                 /\ StSize(p) > max_file_size_bytes => p \notin CandidatePaths
                 /\ (StSize(p) <= max_file_size_bytes /\ ~NulInChunk(p)
                      /\ Suffix(Name(p)) \notin NON_TEXT_EXTENSIONS_SET)
                      => p \in CandidatePaths
  /\ (pc = "done" /\ max_file_size_bytes = 100) =>
       /\ \A i \in DOMAIN output : output[i].content # Content(<<N_w, N_bmd>>)
       /\ (input_paths = <<Cwd>> /\ include_pattern = Star /\ exclude_pattern = <<>>
            /\ gone = {}) =>
            \E i \in DOMAIN output : output[i].content = Content(<<N_w, N_s, N_apy>>)

\* C7 witness: under a limit of 100 the 140-byte file is rejected by the scan
\* and again when named explicitly, and the 100-byte file is written
C7_Witness ==
  /\ pc = "done" /\ max_file_size_bytes = 100
  /\ input_paths = <<Cwd, <<N_w, N_bmd>>>>
  /\ \E c \in calls : StSize(c.file) = 140 /\ c.rule = "too large"
  /\ \E c \in calls : RegularFile(c.file) /\ StSize(c.file) = 100 /\ c.rule = "none"
  /\ \E i \in DOMAIN output : output[i].relative_path = RelStr(<<N_w, N_s, N_apy>>, Cwd)

\* the block of the explicitly named file p is in the output
NamedFileWritten(p) ==
  \E i \in DOMAIN output :
    /\ output[i].relative_path = SortKey(p, Cwd)
    /\ output[i].content = Content(p)

\* C10: when the inputs mix a directory with explicitly named files and an
\* exclude pattern is given, an explicitly named file whose name matches the
\* pattern is absent from the results, while one that does not match it (a
\* text file within the size limit, under the working directory) is present.
C10_ExcludeAppliesToNamedFiles ==
  (/\ pc = "done" /\ gone = {} /\ exclude_pattern # <<>>
   /\ \E k \in DOMAIN input_paths : Directory(input_paths[k])) =>
    \A k \in DOMAIN input_paths :
      LET p == Resolve(input_paths[k])
      IN RegularFile(p) =>
           IF FnMatch(Name(p), exclude_pattern) THEN ~NamedFileWritten(p)
           ELSE (/\ StSize(p) <= max_file_size_bytes
                 /\ ~is_likely_non_text(p)
                 /\ IsRelativeTo(p, Cwd)) => NamedFileWritten(p)

Matches(file_path, root_dir, pattern) ==
  FnMatch(RelStr(file_path, root_dir), pattern) \/ FnMatch(Name(file_path), pattern)

ReasonOf(rule) ==
  CASE rule = "too large" -> "File too large"
    [] rule = "hidden file" -> "Is a hidden file"
    [] rule = "hidden directory" -> "Is in a hidden directory"
    [] rule = "include" -> "Does not match include pattern"
    [] rule = "exclude" -> "Matches exclude pattern"
    [] rule = "non text" -> "Is likely non text"
    [] rule = "none" -> "Not ignored"
    [] OTHER -> "Not a file"

\* C5: should_ignore returns a pair (ignored, reason), reason naming the first
\* rule that fired, and being "Not ignored" exactly when ignored is false.
C5_ReturnsDecisionAndReason ==
  \A c \in calls :
    /\ c.ret.pytype = "tuple"
    /\ Len(c.ret.items) = 2
    /\ c.ret.items[1] = (c.rule # "none")
    /\ c.ret.items[2] = ReasonOf(c.rule)
    /\ (c.ret.items[2] = "Not ignored" <=> c.ret.items[1] = FALSE)

\* the checks made by a call, as a set
Made(c) == {c.checks[i] : i \in DOMAIN c.checks}

\* C6: a regular file within the size limit that matches both the exclude and
\* the include pattern is ignored by the exclude rule, and the include check
\* is not made for it.
C6_ExcludeBeforeInclude ==
  \A c \in calls :
    (/\ RegularFile(c.file) /\ StSize(c.file) <= c.max
     /\ IsRelativeTo(c.file, c.root)
     /\ c.exclude # <<>> /\ Matches(c.file, c.root, c.exclude)
     /\ Matches(c.file, c.root, c.include)) =>
      /\ c.ret.value = TRUE
      /\ c.rule = "exclude"
      /\ "include" \notin Made(c)

\* C6 witness: a file matching an include pattern other than "*" and an
\* exclude pattern has been ignored
C6_Witness ==
  /\ pc = "called"
  /\ \E c \in calls :
        /\ RegularFile(c.file) /\ StSize(c.file) <= c.max
        /\ IsRelativeTo(c.file, c.root)
        /\ c.include # Star /\ Matches(c.file, c.root, c.include)
        /\ c.exclude # <<>> /\ Matches(c.file, c.root, c.exclude)
        /\ c.ret.value = TRUE

\* a component of file_path below root_dir, the file name included, starts
\* with '.'
HiddenBelowRoot(file_path, root_dir) ==
  \E i \in (Len(root_dir) + 1)..Len(file_path) : StartsWithDot(file_path[i])

\* C8: a file that reaches the hidden checks is ignored as hidden exactly when
\* its name or a directory between the scan root and it starts with '.'; the
\* components of the root's own path do not count, so a file with no hidden
\* component below a dot-prefixed root is not ignored as hidden.
C8_HiddenBelowRootOnly ==
  \A c \in calls :
    "hidden file" \in Made(c) =>
      /\ (c.rule \in {"hidden file", "hidden directory"}) <=> HiddenBelowRoot(c.file, c.root)
      /\ (c.rule = "hidden file") <=> StartsWithDot(Name(c.file))

\* C8 witness: a file below a dot-prefixed root is accepted, the hidden
\* checks made
C8_Witness ==
  /\ pc = "called"
  /\ \E c \in calls :
        /\ StartsWithDot(Name(c.root)) /\ IsRelativeTo(c.file, c.root)
        /\ "hidden directory" \in Made(c)
        /\ c.rule = "none" /\ c.ret.value = FALSE

\* C11: an explicitly named regular text file within the size limit yields a
\* record in the results, under the working directory or not: once the reads
\* are done, with no file deleted, the results hold a record with its content
\* for every such input.
C11_NamedFileAnywhere ==
  (pc \in {"write", "done", "exit"} /\ ~paths_only /\ gone = {}) =>
    \A k \in DOMAIN input_paths :
      LET p == Resolve(input_paths[k])
      IN (/\ RegularFile(p)
          /\ StSize(p) <= max_file_size_bytes
          /\ ~is_likely_non_text(p)) =>
           \E i \in DOMAIN results :
             /\ results[i][2] = Content(p)
             /\ Name(p) = SubSeq(results[i][1],
                                 Len(results[i][1]) - Len(Name(p)) + 1,
                                 Len(results[i][1]))

\* the places where a line of the text ends: its newlines, and the end of a
\* last line that no newline ends
LineEnds(text) ==
  {i \in DOMAIN text : text[i] = NL} \cup
  (IF text # <<>> /\ text[Len(text)] # NL THEN {Len(text) + 1} ELSE {})

\* the lines of a text, without their newlines
SplitLines(text) ==
  LET ends == LineEnds(text)
      end(k) == CHOOSE e \in ends : Cardinality({j \in ends : j < e}) = k - 1
  IN [k \in 1..Cardinality(ends) |->
        SubSeq(text, (IF k = 1 THEN 0 ELSE end(k - 1)) + 1, end(k) - 1)]

\* the lines that have reached the consumer
SinkLines == SplitLines(sink)

\* a header line, ">>>> " and a path
IsHeader(line) == Len(line) >= 5 /\ SubSeq(line, 1, 5) = <<">", ">", ">", ">", " ">>

\* the path a header line names
HeaderPath(line) == SubSeq(line, 6, Len(line))

\* the candidates whose relative path can be computed
Relatable ==
  {i \in DOMAIN files_to_process_tuples :
     IsRelativeTo(files_to_process_tuples[i][1], files_to_process_tuples[i][2])}

\* C12: with --paths-only no read task is ever submitted to the pool and the
\* results hold exactly one record, of empty content, per candidate whose
\* relative path can be computed; at the end of the run the output is made of
\* header lines and empty lines alone, one header per such candidate.
C12_PathsOnly ==
  /\ paths_only => future = <<>>
  /\ (paths_only /\ pc \in {"write", "done", "exit"}) =>
       /\ Len(results) = Cardinality(Relatable)
       /\ \A k \in DOMAIN results : results[k][2] = <<>>
       /\ \A i \in Relatable :
            \E k \in DOMAIN results :
              results[k][1] = RelStr(files_to_process_tuples[i][1],
                                     files_to_process_tuples[i][2])
  /\ (paths_only /\ pc = "exit") =>
       /\ \A n \in DOMAIN SinkLines : SinkLines[n] = <<>> \/ IsHeader(SinkLines[n])
       /\ Cardinality({n \in DOMAIN SinkLines : IsHeader(SinkLines[n])}) =
            Cardinality(Relatable)
       /\ \A i \in Relatable :
            \E n \in DOMAIN SinkLines :
              /\ IsHeader(SinkLines[n])
              /\ HeaderPath(SinkLines[n]) =
                   RelStr(files_to_process_tuples[i][1], files_to_process_tuples[i][2])

\* C12 witness: a finished --paths-only run that listed two files or more,
\* not all of them empty, and left out a candidate with no relative path
C12_Witness ==
  /\ paths_only /\ pc = "exit" /\ Len(output) >= 2
  /\ \E i \in DOMAIN files_to_process_tuples :
        /\ i \in Relatable
        /\ Content(files_to_process_tuples[i][1]) # <<>>
  /\ \E i \in DOMAIN files_to_process_tuples : i \notin Relatable

\* the two characters are the same letter, whatever their case
SameLetter(a, b) ==
  \/ a = b
  \/ {a, b} \in {{"p", "P"}, {"n", "N"}, {"g", "G"}}

\* the extension of the name is on the list, case not counting
DeniedExtension(name) ==
  \E e \in NON_TEXT_EXTENSIONS_SET :
    /\ Len(name) > Len(e)
    /\ \A i \in 1..Len(e) : SameLetter(name[Len(name) - Len(e) + i], e[i])

\* opening the file for reading fails: it is not there, it is a directory,
\* or the process may not read it
CannotBeRead(p) ==
  \/ p \notin Paths
  \/ Resolve(p) \in NotThere
  \/ Entry(Resolve(p)).kind = "dir"
  \/ Resolve(p) \in NoReadPermission

\* C13: is_likely_non_text is true exactly when the extension, case not
\* counting, is on the list, or the file cannot be opened and read, or one
\* of its first 1024 bytes is NUL; a file with a listed extension is not
\* opened; an empty file and a file whose first NUL byte is at offset 1024
\* or later, their extension not listed, are text.
C13_NonText ==
  \A c \in calls :
    pc = "probed" =>
      LET name == Name(c.file)
          z == Entry(Resolve(c.file)).nul
      IN /\ c.ret <=>
              \/ DeniedExtension(name)
              \/ CannotBeRead(c.file)
              \/ z \in 0..1023
         /\ DeniedExtension(name) => ~c.probe.opened
         /\ (~DeniedExtension(name) /\ ~CannotBeRead(c.file)) =>
              /\ StSize(c.file) = 0 => c.ret = FALSE
              /\ (z = NoNul \/ z >= 1024) => c.ret = FALSE

\* C13 witness: a file whose only NUL byte is at offset 1024 was opened and
\* found to be text
C13_Witness ==
  /\ pc = "probed"
  /\ \E c \in calls :
        /\ c.probe.opened /\ c.ret = FALSE
        /\ Entry(Resolve(c.file)).nul = 1024

\* the string is a number, a decimal part or none, and a unit or none, in
\* either case: the digits before the point, those behind it, the power of
\* 1024 of the unit; ok is false for any other string
NumberAndUnit(s) ==
  LET n1 == LeadingDigits(s)
      r1 == Drop(s, n1)
      n2 == IF r1 # <<>> /\ Head(r1) = "." THEN LeadingDigits(Tail(r1)) ELSE 0
      r2 == IF r1 # <<>> /\ Head(r1) = "." THEN Drop(r1, n2 + 1) ELSE r1
      unit == UpperStr(r2)
      units == { <<>>, <<"B">>, <<"K">>, <<"K", "B">>, <<"M">>, <<"M", "B">>,
                 <<"G">>, <<"G", "B">>, <<"T">>, <<"T", "B">>, <<"P">>,
                 <<"P", "B">>, <<"E">>, <<"E", "B">>, <<"Z">>, <<"Z", "B">>,
                 <<"Y">>, <<"Y", "B">> }
  IN [ ok |-> /\ n1 > 0
              /\ (r1 # <<>> /\ Head(r1) = ".") => n2 > 0
              /\ unit \in units,
       digits |-> SubSeq(s, 1, n1) \o (IF n2 > 0 THEN SubSeq(r1, 2, n2 + 1) ELSE <<>>),
       places |-> n2,
       power |-> IF unit \in units THEN UnitPower(unit) ELSE 0 ]

\* floor(mantissa * 1024^power), in decimal
FloorOfProduct(digits, places, power) ==
  IntStr(StripZeros(
    DivSmall(FromDecimal(digits) \o Zeros(power), PowerOfTen(places), 0).quot))

\* the call parse_size(s) returned n, given in decimal
Parsed(s, n) == \A c \in calls : c.size_str = s => c.ret = [pytype |-> "int", digits |-> n]

\* C14: parse_size returns floor(mantissa * 1024^power) for a string of the
\* form number[unit] and raises an error for any other string; '1024' gives
\* 1024, '1.5M' 1572864, '2G' 2147483648, '5mb' 5242880, '10K' 10240, '10' 10,
\* and 'abc' and '10X' raise.
C14_ParseSize ==
  pc = "parsed" =>
    /\ \A c \in calls :
         LET form == NumberAndUnit(c.size_str)
         IN IF form.ok
              THEN c.ret = [pytype |-> "int",
                            digits |-> FloorOfProduct(form.digits, form.places, form.power)]
              ELSE c.ret.pytype # "int"
    /\ Parsed(<<"1", "0", "2", "4">>, <<"1", "0", "2", "4">>)
    /\ Parsed(<<"1", ".", "5", "M">>, <<"1", "5", "7", "2", "8", "6", "4">>)
    /\ Parsed(<<"2", "G">>, <<"2", "1", "4", "7", "4", "8", "3", "6", "4", "8">>)
    /\ Parsed(<<"5", "m", "b">>, <<"5", "2", "4", "2", "8", "8", "0">>)
    /\ Parsed(<<"1", "0", "K">>, <<"1", "0", "2", "4", "0">>)
    /\ Parsed(<<"1", "0">>, <<"1", "0">>)
    /\ \A c \in calls :
         c.size_str \in {<<"a", "b", "c">>, <<"1", "0", "X">>} => c.ret.pytype = "ValueError"

RECURSIVE ParseDigits(_, _)
\* the number a string of digits denotes, commas skipped; acc is the value of
\* the digits read so far
ParseDigits(s, acc) ==
  IF s = <<>> THEN acc
  ELSE IF Head(s) = "," THEN ParseDigits(Tail(s), acc)
  ELSE ParseDigits(Tail(s), 10 * acc + DigitValue(Head(s)))

\* the number a printed int denotes
ParseInt(s) ==
  IF s # <<>> /\ Head(s) = "-" THEN 0 - ParseDigits(Tail(s), 0) ELSE ParseDigits(s, 0)

\* the line ends with `tail`
EndsWith(line, tail) ==
  Len(line) >= Len(tail) /\ SubSeq(line, Len(line) - Len(tail) + 1, Len(line)) = tail

\* the line begins with `head`
BeginsWith(line, head) ==
  Len(line) >= Len(head) /\ SubSeq(line, 1, Len(head)) = head

TokensWord == <<" ", "t", "o", "k", "e", "n", "s", ",", " ">>
BytesWord == <<" ", "b", "y", "t", "e", "s">>
TotalWords ==
  << "T", "o", "t", "a", "l", " ", "t", "o", "k", "e", "n", "s", " ", "o", "f",
     " ", "i", "n", "p", "u", "t", " ", "f", "i", "l", "e", "s", ":", " " >>

\* where the first blank of the line is
FirstBlank(line) ==
  CHOOSE i \in DOMAIN line : line[i] = " " /\ \A k \in 1..(i - 1) : line[k] # " "

\* a line "<N> tokens, <M> bytes"
IsSummary(line) ==
  /\ ~IsHeader(line) /\ EndsWith(line, BytesWord)
  /\ \E i \in DOMAIN line : line[i] = " "
  /\ BeginsWith(SubSeq(line, FirstBlank(line), Len(line)), TokensWord)

\* the N and the M of such a line
SummaryTokens(line) == ParseInt(SubSeq(line, 1, FirstBlank(line) - 1))
SummaryBytes(line) ==
  ParseInt(SubSeq(line, FirstBlank(line) + Len(TokensWord), Len(line) - Len(BytesWord)))

\* a line "Total tokens of input files: <N>", and its N
IsTotal(line) == BeginsWith(line, TotalWords)
TotalValue(line) == ParseInt(SubSeq(line, Len(TotalWords) + 1, Len(line)))

\* the lines of the kind, in their order
SummaryLines == SelectSeq(SinkLines, IsSummary)
TotalLines == SelectSeq(SinkLines, IsTotal)

\* write_output ran to its end, no write failing, and the process has exited
WrittenOut == pc = "exit" /\ raised = "none"

\* C15: without tiktoken a run over one file or more goes through, and every
\* token count it reports is the sentinel -1: the count of each file, the
\* total of the 'Total tokens of input files' line, and the total that
\* write_output returns.
C15_SentinelTotals ==
  (WrittenOut /\ tiktoken = "None" /\ Len(results) >= 1) =>
    /\ exit_status = 0
    /\ total_tokens_of_output = -1
    /\ output_tokens_size_only =>
         /\ \A n \in DOMAIN SummaryLines : SummaryTokens(SummaryLines[n]) = -1
         /\ \A n \in DOMAIN TotalLines : TotalValue(TotalLines[n]) = -1

RECURSIVE SumTokens(_)
\* the sum of the token counts of the summary lines
SumTokens(lines) ==
  IF lines = <<>> THEN 0 ELSE SummaryTokens(Head(lines)) + SumTokens(Tail(lines))

\* C16: in size-report mode, a run whose writes all went through ends its
\* output with one line 'Total tokens of input files: N', the only such line
\* and the last line of the output, one summary line per file before it, and
\* N is the sum of the token counts those summary lines print.
C16_TotalLine ==
  (WrittenOut /\ output_tokens_size_only) =>
    /\ Len(TotalLines) = 1
    /\ IsTotal(SinkLines[Len(SinkLines)])
    /\ sink[Len(sink)] = NL
    /\ Len(SummaryLines) = Len(results)
    /\ TotalValue(TotalLines[1]) = SumTokens(SummaryLines)

\* C16 witness: a size-report run of two files whose total, above 1000, is
\* printed with a comma
C16_Witness ==
  /\ WrittenOut /\ output_tokens_size_only /\ Len(results) = 2
  /\ tiktoken # "None"
  /\ SumTokens(SummaryLines) > 1000
  /\ \E i \in DOMAIN TotalLines[1] : TotalLines[1][i] = ","

\* C17: in size-report mode the block of a file is three lines: the header
\* '>>>> <relative path>', next to it the line '<N> tokens, <M> bytes', and
\* an empty line; the file's content is not written.
C17_ThreeLineBlocks ==
  (WrittenOut /\ output_tokens_size_only /\ Len(results) >= 1) =>
    /\ Len(SinkLines) = 3 * Len(results) + 1
    /\ \A k \in DOMAIN results :
         /\ SinkLines[3 * k - 2] = <<">", ">", ">", ">", " ">> \o results[k][1]
         /\ IsSummary(SinkLines[3 * k - 1])
         /\ SinkLines[3 * k] = <<>>

\* C18: in size-report mode the byte count printed for a file is the length
\* in bytes, in UTF-8, of its header line, newline included, followed by its
\* content.
C18_ByteCount ==
  (WrittenOut /\ output_tokens_size_only /\ Len(SummaryLines) = Len(results)) =>
    \A k \in DOMAIN results :
      SummaryBytes(SummaryLines[k]) =
        Utf8Len(<<">", ">", ">", ">", " ">> \o results[k][1] \o <<NL>> \o results[k][2])

RECURSIVE WrittenTokens(_)
\* the tokens of the blocks written in normal mode, header and content, as
\* count_tokens counts them
WrittenTokens(rs) ==
  IF rs = <<>> THEN 0
  ELSE count_tokens(<<">", ">", ">", ">", " ">> \o Head(rs)[1] \o <<NL>> \o Head(rs)[2])
       + WrittenTokens(Tail(rs))

RECURSIVE ContentTokens(_)
\* the tokens of the contents alone
ContentTokens(rs) ==
  IF rs = <<>> THEN 0 ELSE count_tokens(Head(rs)[2]) + ContentTokens(Tail(rs))

RECURSIVE NormalText(_)
\* the text of a run in normal mode: header, content and a newline per record
NormalText(rs) ==
  IF rs = <<>> THEN <<>>
  ELSE <<">", ">", ">", ">", " ">> \o Head(rs)[1] \o <<NL>> \o Head(rs)[2] \o <<NL>> \o
       NormalText(Tail(rs))

C20_BrokenPipeIsSuccess ==
  (pc = "exit" /\ raised # "none") =>
    IF raised = "BrokenPipeError" THEN exit_status = 0 ELSE exit_status # 0


\* no input path of the command line names an existing file or directory
NoInputResolves ==
  \A i \in DOMAIN input_paths : Resolve(input_paths[i]) \notin Paths

\* C21: a run none of whose input paths resolves to an existing file or
\* directory ends with an exit status other than 0.
C21_NoInputIsAnError ==
  (pc = "exit" /\ NoInputResolves) => exit_status # 0


\* a step writes to the output target
Writes == output' # output \/ sink' # sink \/ buffer' # buffer

\* C22: a step that writes to the output target is taken only when every read
\* task has finished, returned or failed, none pending and none running, and
\* it is no step of the pool: it changes no task and adds no result.
C22_WritesAfterReads ==
  [][Writes => /\ Completed = DOMAIN future
               /\ Running = {} /\ Pending = {}
               /\ future' = future /\ results' = results]_vars

\* C22 witness: a block has been written in a run of several workers in which
\* one read task failed and another returned
C22_Witness ==
  /\ pc = "write" /\ Len(output) >= 1 /\ num_workers > 1
  /\ \E i, j \in DOMAIN future :
       future[i].state = "failed" /\ future[j].state = "returned"


\* U+FFFD, the character a decoder puts in the place of bytes it cannot decode
ReplacementChar == "U+FFFD"

\* the text of the bytes, every byte that cannot be decoded replaced by U+FFFD
DecodedWithMarkers(bytes) ==
  [i \in 1..Len(bytes) |-> IF bytes[i] = BadByte THEN ReplacementChar ELSE bytes[i]]

\* the bytes hold one that cannot be decoded
Undecodable(bytes) == \E i \in DOMAIN bytes : bytes[i] = BadByte

\* C23: the read of a file that holds bytes which cannot be decoded (a file
\* that is there, below its root) returns a record, and the record's content
\* is the text of the file with U+FFFD in the place of each such byte.
C23_UndecodableBytesReplaced ==
  \A i \in DOMAIN future :
    LET f == sorted_files_info[i][1]
        root == sorted_files_info[i][2]
    IN (/\ future[i].state \in {"returned", "failed"}
        /\ Undecodable(Bytes(f)) /\ f \notin gone /\ IsRelativeTo(f, root)) =>
         /\ future[i].state = "returned"
         /\ \E k \in DOMAIN results :
              results[k] = <<RelStr(f, root), DecodedWithMarkers(Bytes(f))>>


\* the file of the call lies in a directory below the root, not in the root
Deeper(c) == Len(c.file) > Len(c.root) + 1

\* C24: a call of should_ignore that comes to a pattern takes the pattern to
\* match the file when it matches the path relative to the root or the bare
\* name, one of the two being enough: the exclude rule fires exactly then, the
\* include rule exactly when neither matches.  So "a*" excludes s/a.py by its
\* name, below the root's own level, and "s/*" excludes it by its relative
\* path.
C24_GlobOnPathOrName ==
  \A c \in calls :
    /\ ("exclude" \in Made(c) /\ c.exclude # <<>>) =>
         (c.rule = "exclude" <=>
            \/ FnMatch(RelStr(c.file, c.root), c.exclude)
            \/ FnMatch(Name(c.file), c.exclude))
    /\ ("include" \in Made(c) /\ c.include # Star) =>
         (c.rule = "include" <=>
            /\ ~FnMatch(RelStr(c.file, c.root), c.include)
            /\ ~FnMatch(Name(c.file), c.include))
    /\ (/\ "exclude" \in Made(c)
        /\ c.file = <<N_w, N_s, N_apy>> /\ c.root = <<N_w>>
        /\ c.exclude \in {<<"a", "*">>, <<"s", "/", "*">>}) =>
         c.rule = "exclude"

\* C24 witness: a file in a directory below the root has been excluded by a
\* pattern that matches its name and not its relative path
C24_Witness ==
  /\ pc = "called"
  /\ \E c \in calls :
       /\ Deeper(c) /\ "exclude" \in Made(c)
       /\ c.rule = "exclude" /\ c.ret.value = TRUE
       /\ ~FnMatch(RelStr(c.file, c.root), c.exclude)
       /\ FnMatch(Name(c.file), c.exclude)


\* a step in which the i-th task fails
Fails(i) ==
  /\ i \in DOMAIN future
  /\ future[i].state # "failed" /\ future'[i].state = "failed"

\* C25: with the workers scheduled fairly read_files_parallel returns, every
\* task it submitted having finished: each task finishes, whatever has failed
\* before it, and a step in which a task fails changes no other task and
\* drops no result.
C25_ReadsReturn ==
  /\ (pc = "read") ~> (pc = "write")
  /\ \A i \in 1..MaxTasks :
       (pc = "read" /\ i \in DOMAIN future) ~> (i \in Completed)
  /\ [](pc = "write" => Completed = DOMAIN future)
  /\ [][\A i \in 1..MaxTasks :
          Fails(i) => /\ \A j \in DOMAIN future : j # i => future'[j] = future[j]
                      /\ results' = results]_vars

\* C25 witness: read_files_parallel has returned from a one-worker run in which
\* the first task failed, the second waiting, and the second then returned
C25_Witness ==
  /\ pc = "write" /\ num_workers = 1 /\ Len(future) = 2
  /\ future[1].state = "failed" /\ future[1].at = 1
  /\ future[2].state = "returned" /\ future[2].at = 2


\* the tasks that returned a record
Returned == {i \in DOMAIN future : future[i].state = "returned"}

\* how many tasks returned a record before the i-th did, itself counted
ReturnRank(i) == Cardinality({j \in Returned : future[j].at <= future[i].at})

\* the relative path of the i-th candidate with what its file holds, as text
PathWithContent(i) ==
  << JoinParts(SubSeq(sorted_files_info[i][1], Len(sorted_files_info[i][2]) + 1,
                      Len(sorted_files_info[i][1]))),
     Decode(Entry(Resolve(sorted_files_info[i][1])).content) >>

C27_ProbeLast ==
  \A c \in calls :
    /\ "non text" \in Made(c) =>
         /\ c.checks[Len(c.checks)] = "non text"
         /\ Len(c.checks) = 8
         /\ RegularFile(c.file) /\ StSize(c.file) <= c.max
         /\ IsRelativeTo(c.file, c.root)
         /\ ~(c.exclude # <<>> /\ Matches(c.file, c.root, c.exclude))
         /\ c.include = Star \/ Matches(c.file, c.root, c.include)
         /\ ~HiddenBelowRoot(c.file, c.root)
         /\ c.rule \in {"non text", "none"}
    /\ c.rule \notin {"non text", "none"} =>
         /\ c.ret.value = TRUE
         /\ \A k \in DOMAIN c.checks : c.checks[k] # "non text"

\* C27 witness: a file that passed an exclude and an include pattern of the
\* command line and the hidden checks was probed, and ignored as non text
C27_Witness ==
  /\ pc = "called"
  /\ \E c \in calls :
       /\ c.exclude # <<>> /\ c.include # Star
       /\ c.rule = "non text" /\ c.ret.value = TRUE
       /\ Probe(c.file).opened


\* the records of the candidates whose read succeeds, in the order of their
\* submission: what the tasks append when they complete one after the other,
\* as they do with one worker
InSubmissionOrder ==
  LET kept == SelectSeq([i \in DOMAIN sorted_files_info |-> i],
                        LAMBDA i : ~ReadFails(i))
  IN [k \in DOMAIN kept |-> RecordOf(kept[k])]

\* C28: the blocks a run assembles are fixed by its input paths, its options
\* and the tree: with no file deleted, the sorted results are those of the run
\* in which the tasks complete in the order of their submission, however many
\* workers there are and in whatever order the tasks completed; so too when
\* two roots hold files of the same relative path.
C28_CompletionOrderDoesNotMatter ==
  (pc \in {"write", "done", "exit"} /\ ~paths_only /\ gone = {}) =>
    results = SortResults(InSubmissionOrder)


\* C29: whatever the include and the exclude pattern, a file that
\* should_ignore accepts is a regular file whose name does not start with '.'
\* and that lies in no directory, below the root, whose name starts with '.'.
C29_NoHiddenFileAccepted ==
  \A c \in calls :
    c.ret.value = FALSE =>
      /\ c.rule = "none"
      /\ RegularFile(c.file) /\ IsRelativeTo(c.file, c.root)
      /\ ~StartsWithDot(Name(c.file))
      /\ \A i \in (Len(c.root) + 1)..(Len(c.file) - 1) : ~StartsWithDot(c.file[i])

\* C29 witness: a text file in a dot-prefixed directory below the root, which
\* an include pattern other than "*" matches, has been ignored for its
\* directory
C29_Witness ==
  /\ pc = "called"
  /\ \E c \in calls :
       /\ c.include # Star /\ Matches(c.file, c.root, c.include)
       /\ c.rule = "hidden directory" /\ c.ret.value = TRUE
       /\ ~is_likely_non_text(c.file)


\* the working directory is one of the roots the run scans
ScansCwd == \E k \in DOMAIN input_paths : Resolve(input_paths[k]) = Cwd

\* C30: in a run from a terminal, which writes to output.txt in the working
\* directory, and which scans the working directory, no block written is the
\* block of output.txt.
C30_OwnOutputNotPacked ==
  (~using_stdout /\ ScansCwd) =>
    \A i \in DOMAIN output : output[i].relative_path # DEFAULT_OUTPUT_FILENAME

====
